---- MODULE Spec2Model ----
(***************************************************************************)
(* Verification model of the caching / fetch-orchestration core of the     *)
(* research-paper-app: api-utils (error classification, retryWithBackoff,  *)
(* RateLimiter), BrowserCache (ephemeral tier), the Supabase cache         *)
(* functions (durable tier), OpenAlexClient and the two orchestrators      *)
(* OpenAlexCache / SemanticScholarCache.                                   *)
(*                                                                         *)
(* Time is in milliseconds.  Every await of the TypeScript code is a       *)
(* separate step of the caller that executes it; the synchronous code      *)
(* between two awaits is one atomic step.                                  *)
(***************************************************************************)
EXTENDS Integers, Sequences, FiniteSets, TLC

VARIABLES now, provider, hasStorage, localStore, searchTable, papersTable,
          lastRequestTime, cs, calls, events, grants, lastOp

vars == <<now, provider, hasStorage, localStore, searchTable, papersTable,
          lastRequestTime, cs, calls, events, grants, lastOp>>

(***************************************************************************)
(* Program constants.                                                      *)
(***************************************************************************)
CACHE_DURATION == 3600000
MAX_CACHE_SIZE == 50 * 1024 * 1024
MAX_ENTRIES == 1000
SEARCH_TTL == 3600000
SAFE_MAX == 25
DEFAULT_PER_PAGE == 25
MaxRetries == 3
BaseDelay == 1000
OpenAlexMinInterval == 500
SemanticScholarMinInterval == 1000

(***************************************************************************)
(* Bounds of the model.                                                    *)
(***************************************************************************)
MaxCalls == 2
MaxEvents == 2
MaxGrants == 3
MaxOps == 4

Callers == {1, 2}
Providers == {"openalex", "semanticscholar"}

\* Date.now() is milliseconds since 1970: the clock starts far above every
\* interval of the program, while the limiter's lastRequestTime starts at 0.
Epoch == 2 * CACHE_DURATION

Min(a, b) == IF a < b THEN a ELSE b
Max(a, b) == IF a > b THEN a ELSE b

\* null / undefined are the empty sequence, a present value x is <<x>>.
None == <<>>
Some(x) == <<x>>
IsSome(o) == o # <<>>
Get(o) == o[1]

\* Math.pow(2, n)
RECURSIVE Pow2(_)
Pow2(n) == IF n = 0 THEN 1 ELSE 2 * Pow2(n - 1)

(***************************************************************************)
(* Errors.  An error value carries the fields the classifiers look at:     *)
(* status, response.status, code, message and whether it is an instance    *)
(* of APIValidationError.  0 / "" stand for an absent field.               *)
(***************************************************************************)
Err(msg) ==
    [status |-> 0, responseStatus |-> 0, code |-> "", message |-> msg, validation |-> FALSE]

\* String.prototype.includes is case-sensitive.  For each message the model
\* uses, the needles of the classifiers (and of the Semantic Scholar wrapper)
\* that occur in it.
MessageNeedles ==
    [m \in {"OpenAlex API error: 429 Too Many Requests",
            "OpenAlex API error: 500 Internal Server Error",
            "HTTP 500: Internal Server Error",
            "Rate limit exceeded",
            "network timeout",
            "fetch failed",
            "Request failed with status code 429",
            "Request failed with status code 500",
            "Query is required and must be a string"} |->
        CASE m = "OpenAlex API error: 429 Too Many Requests" -> {"429", "Too Many Requests"}
          [] m = "Rate limit exceeded" -> {"Rate limit exceeded"}
          [] m = "network timeout" -> {"network", "timeout"}
          [] m = "Request failed with status code 429" -> {"429"}
          [] OTHER -> {}]

includes(msg, needle) == needle \in MessageNeedles[msg]

isRateLimitError(error) ==
    \/ error.status = 429
    \/ error.responseStatus = 429
    \/ error.code = "RATE_LIMIT_EXCEEDED"
    \/ includes(error.message, "rate limit")
    \/ includes(error.message, "429")

isRetryableError(error) ==
    \/ error.responseStatus \in {500, 502, 503, 504}
    \/ error.code \in {"ECONNRESET", "ETIMEDOUT"}
    \/ includes(error.message, "timeout")
    \/ includes(error.message, "network")
    \/ includes(error.message, "connection")

isValidationError(error) == error.validation

\* a policy that looks at the retryable predicate first
RetryDecision_retryableFirst(error, attempt, maxRetries) ==
    IF isRetryableError(error) /\ attempt # maxRetries THEN "retry" ELSE "throw"

\* a policy that retries whatever is neither a validation nor a rate-limit
\* error
RetryDecision_retriesUnclassified(error, attempt, maxRetries) ==
    IF isValidationError(error) \/ isRateLimitError(error) THEN "throw"
    ELSE IF attempt = maxRetries THEN "throw"
    ELSE "retry"

\* The catch block of retryWithBackoff for the failure of attempt number
\* `attempt` (0-based): "throw" rethrows the error, "retry" sleeps for
\* RetryDelay and runs the next attempt.
RetryDecision(error, attempt, maxRetries) ==
    IF isValidationError(error) \/ isRateLimitError(error) THEN "throw"
    ELSE IF ~isRetryableError(error) \/ attempt = maxRetries THEN "throw"
    ELSE "retry"

\* a backoff that grows linearly
RetryDelay_linear(attempt, baseDelay) == baseDelay * (attempt + 1)

RetryDelay(attempt, baseDelay) == baseDelay * Pow2(attempt)

\* a limiter that sleeps for what has elapsed instead of what remains
RateLimiterDelay_elapsed(t, last, minInterval) ==
    IF t - last < minInterval THEN t - last ELSE 0

\* RateLimiter.waitForNextRequest up to its await: the delay to sleep, 0
\* when the grant is stamped at once.
RateLimiterDelay(t, last, minInterval) ==
    IF t - last < minInterval THEN minInterval - (t - last) ELSE 0

minIntervalOf(p) ==
    IF p = "openalex" THEN OpenAlexMinInterval ELSE SemanticScholarMinInterval

(***************************************************************************)
(* BrowserCache: the ephemeral tier.  localStorage holds one JSON object;  *)
(* it is modelled as the sequence of its entries in property (insertion)   *)
(* order, each entry the key with its CacheItem envelope.  A key is the    *)
(* prefix ("search" / "paper") with the id it is concatenated with.        *)
(***************************************************************************)
PaperBytes == 400
EntryBytes == 200
EnvelopeBytes == 60

paperKey(paperId) == [kind |-> "paper", id |-> paperId]
searchKey(queryHash) == [kind |-> "search", id |-> queryHash]

\* getCache: {} outside a browser, else the parsed stored object.
getCache(store, hs) == IF hs THEN store ELSE <<>>

\* setCache: a no-op outside a browser, else the object is stored.
setCache(store, hs, cache) == IF hs THEN cache ELSE store

IndexOf(cache, key) ==
    IF \E i \in 1..Len(cache) : cache[i].key = key
    THEN CHOOSE i \in 1..Len(cache) : cache[i].key = key
    ELSE 0

\* delete cache[key] for every key of the set ks
Without(cache, ks) == SelectSeq(cache, LAMBDA e : e.key \notin ks)

\* cache[key] = item: an existing property keeps its position, a new one is
\* added last.
Assign(cache, key, item) ==
    LET i == IndexOf(cache, key)
        e == [key |-> key, data |-> item.data, timestamp |-> item.timestamp,
              expiresAt |-> item.expiresAt]
    IN IF i = 0 THEN Append(cache, e) ELSE [cache EXCEPT ![i] = e]

\* the length of JSON.stringify(data): a search entry grows with its
\* results; a value that states its size has that size
DataBytes(data) ==
    IF "results" \in DOMAIN data
    THEN EntryBytes + Len(data.results) * PaperBytes
    ELSE IF "bytes" \in DOMAIN data THEN data.bytes
    ELSE PaperBytes

RECURSIVE SumBytes(_)
SumBytes(cache) ==
    IF cache = <<>> THEN 0
    ELSE EnvelopeBytes + DataBytes(Head(cache).data) + SumBytes(Tail(cache))

\* JSON.stringify(cache).length
SerializedSize(cache) == 2 + SumBytes(cache)

\* entries.sort by timestamp (stable): entry i comes before entry j
SortsBefore(cache, i, j) ==
    \/ cache[i].timestamp < cache[j].timestamp
    \/ cache[i].timestamp = cache[j].timestamp /\ i < j

\* an eviction that removes the most recently used entries
evictIfNeeded_newest(cache) ==
    LET n == Len(cache)
    IN IF SerializedSize(cache) > MAX_CACHE_SIZE \/ n > MAX_ENTRIES
       THEN LET k == n \div 5
                toRemove == {cache[i].key : i \in
                               {i \in 1..n :
                                  Cardinality({j \in 1..n : SortsBefore(cache, i, j)}) < k}}
            IN Without(cache, toRemove)
       ELSE cache

evictIfNeeded(cache) ==
    LET n == Len(cache)
    IN IF SerializedSize(cache) > MAX_CACHE_SIZE \/ n > MAX_ENTRIES
       THEN LET k == n \div 5     \* Math.floor(entries.length * 0.2)
                toRemove == {cache[i].key : i \in
                               {i \in 1..n :
                                  Cardinality({j \in 1..n : SortsBefore(cache, j, i)}) < k}}
            IN Without(cache, toRemove)
       ELSE cache

(***************************************************************************)
(* The operations take two flags: r, whether getCache can read the stored  *)
(* object (it returns {} outside a browser and when getItem or JSON.parse  *)
(* throws), and w, whether setCache can write it (it does nothing outside  *)
(* a browser and when setItem throws).  Each yields the value returned     *)
(* (None for null or void), the store it leaves and whether it threw.      *)
(***************************************************************************)
BrowserCache_deleteRW(store, r, w, key) ==
    [ret |-> None, threw |-> FALSE,
     store |-> setCache(store, w, Without(getCache(store, r), {key}))]

BrowserCache_delete(store, hs, key) == BrowserCache_deleteRW(store, hs, hs, key).store

\* get that answers null for an expired entry but leaves it stored
BrowserCache_get_keepsExpired(store, hs, key, t) ==
    LET cache == getCache(store, hs)
        i == IndexOf(cache, key)
    IN IF i = 0 \/ t > cache[i].expiresAt THEN [ret |-> None, store |-> store]
       ELSE [ret |-> Some(cache[i].data),
             store |-> setCache(store, hs, [cache EXCEPT ![i].timestamp = t])]

\* get that also renews the expiry of the entry it returns
BrowserCache_get_slidingExpiry(store, hs, key, t) ==
    LET cache == getCache(store, hs)
        i == IndexOf(cache, key)
    IN IF i = 0 THEN [ret |-> None, store |-> store]
       ELSE IF t > cache[i].expiresAt
            THEN [ret |-> None, store |-> BrowserCache_delete(store, hs, key)]
            ELSE [ret |-> Some(cache[i].data),
                  store |-> setCache(store, hs,
                               [cache EXCEPT ![i].timestamp = t,
                                             ![i].expiresAt = t + CACHE_DURATION])]

BrowserCache_getRW(store, r, w, key, t) ==
    LET cache == getCache(store, r)
        i == IndexOf(cache, key)
    IN IF i = 0 THEN [ret |-> None, store |-> store, threw |-> FALSE]
       ELSE IF t > cache[i].expiresAt
            THEN [ret |-> None, store |-> BrowserCache_deleteRW(store, r, w, key).store,
                  threw |-> FALSE]
            ELSE [ret |-> Some(cache[i].data), threw |-> FALSE,
                  store |-> setCache(store, w, [cache EXCEPT ![i].timestamp = t])]

\* get: the returned value (None for null) and the store it leaves
BrowserCache_get(store, hs, key, t) ==
    LET g == BrowserCache_getRW(store, hs, hs, key, t)
    IN [ret |-> g.ret, store |-> g.store]

\* set: duration 0 stands for an omitted duration (duration || CACHE_DURATION)
BrowserCache_setRW(store, r, w, key, data, duration, t) ==
    LET cache == getCache(store, r)
        expiresAt == t + (IF duration = 0 THEN CACHE_DURATION ELSE duration)
        item == [data |-> data, timestamp |-> t, expiresAt |-> expiresAt]
    IN [ret |-> None, threw |-> FALSE,
        store |-> setCache(store, w, evictIfNeeded(Assign(cache, key, item)))]

BrowserCache_set(store, hs, key, data, duration, t) ==
    BrowserCache_setRW(store, hs, hs, key, data, duration, t).store

\* clear: pattern "" stands for an omitted pattern (localStorage.removeItem,
\* which throws outside a browser and is caught); otherwise the regular
\* expression is tested against every key.  The patterns of the model are
\* the two key prefixes.
\* a clear whose removeItem is outside the try block
BrowserCache_clearRW_noTry(store, r, w, pattern) ==
    IF pattern = ""
    THEN [ret |-> None, store |-> IF w THEN <<>> ELSE store, threw |-> ~w]
    ELSE LET cache == getCache(store, r)
         IN [ret |-> None, threw |-> FALSE,
             store |-> setCache(store, w, SelectSeq(cache, LAMBDA e : e.key.kind # pattern))]

\* localStorage.removeItem throws when it cannot write (~w); the catch block
\* of clear swallows it
BrowserCache_clearRW(store, r, w, pattern) ==
    IF pattern = ""
    THEN [ret |-> None, store |-> IF w THEN <<>> ELSE store, threw |-> FALSE]
    ELSE LET cache == getCache(store, r)
         IN [ret |-> None, threw |-> FALSE,
             store |-> setCache(store, w, SelectSeq(cache, LAMBDA e : e.key.kind # pattern))]

BrowserCache_clear(store, hs, pattern) == BrowserCache_clearRW(store, hs, hs, pattern).store

BrowserCache_invalidateRW(store, r, w, t) ==
    LET cache == getCache(store, r)
        kept == SelectSeq(cache, LAMBDA e : ~(t > e.expiresAt))
    IN [ret |-> None, threw |-> FALSE,
        store |-> IF kept # cache THEN setCache(store, w, kept) ELSE store]

BrowserCache_invalidate(store, hs, t) == BrowserCache_invalidateRW(store, hs, hs, t).store

\* getStats: the entries that have not expired are counted; totalSize is
\* the length of the serialized object
BrowserCache_getStats(store, r, t) ==
    LET cache == getCache(store, r)
    IN [ret |-> Some([totalEntries |-> Len(SelectSeq(cache, LAMBDA e : t <= e.expiresAt)),
                      totalSize |-> SerializedSize(cache),
                      hitRate |-> 0]),
        store |-> store, threw |-> FALSE]

BrowserCache_getPaper(store, hs, paperId, t) ==
    BrowserCache_get(store, hs, paperKey(paperId), t)

BrowserCache_setPaper(store, hs, paper, t) ==
    BrowserCache_set(store, hs, paperKey(paper.paperId), paper, 0, t)

BrowserCache_getSearchResult(store, hs, queryHash, t) ==
    BrowserCache_get(store, hs, searchKey(queryHash), t)

BrowserCache_setSearchResult(store, hs, queryHash, result, t) ==
    BrowserCache_set(store, hs, searchKey(queryHash), result, 0, t)

(***************************************************************************)
(* Values.  A Paper is its paperId and createdAt (NoTime for an absent     *)
(* createdAt; every ISO date string is truthy).                            *)
(***************************************************************************)
NoTime == -1
Truthy(time) == time # NoTime

Paper(id, createdAt) == [paperId |-> id, createdAt |-> createdAt]

PaperIdsOf(ps) == [i \in 1..Len(ps) |-> ps[i].paperId]
Range(seq) == {seq[i] : i \in 1..Len(seq)}

\* generateQueryHash: SHA-256 of `${query}_${limit}`; the digest is taken to
\* be collision-free, so the hashed string stands for it.
generateQueryHash(query, limit) == query \o "_" \o ToString(limit)

(***************************************************************************)
(* The upstream provider: what a search for a query returns, cut to the    *)
(* requested page size, and the outcomes of one HTTP request.              *)
(***************************************************************************)
Queries == {"a", "b"}
Limits == {1, 2}
BatchQuery == "c"
BatchLimit == 5

Catalog(query) ==
    CASE query = "a" -> <<"W1", "W2">>
      [] query = "b" -> <<"W2", "W3">>
      [] OTHER -> <<"W1", "W2", "W3", "W4", "W5">>

UpstreamFailures == {"429", "500", "timeout"}

\* OpenAlexClient.searchWorks: per_page is (options.limit || 25)
PerPage(limit) == IF limit = 0 THEN DEFAULT_PER_PAGE ELSE limit

UpstreamResults(query, perPage) ==
    SubSeq(Catalog(query), 1, Min(perPage, Len(Catalog(query))))

\* The error a failed request surfaces as.  A non-ok response becomes
\* Error(`OpenAlex API error: ${status} ${statusText}`); a rejected fetch
\* keeps the runtime's error.
FetchRejection(outcome) ==
    IF outcome = "timeout" THEN Err("network timeout") ELSE Err("fetch failed")

OpenAlexError(outcome) ==
    CASE outcome = "429" -> Err("OpenAlex API error: 429 Too Many Requests")
      [] outcome = "500" -> Err("OpenAlex API error: 500 Internal Server Error")
      [] OTHER -> FetchRejection(outcome)

\* SemanticScholarCache.fetchFromAPI, the operation passed to retryWithBackoff:
\* 429 throws Error('Rate limit exceeded'), any other non-ok response
\* Error(`HTTP ${status}: ${statusText}`); the catch re-wraps rate limits.
SemanticScholarSearchError(outcome) ==
    LET thrown == CASE outcome = "429" -> Err("Rate limit exceeded")
                    [] outcome = "500" -> Err("HTTP 500: Internal Server Error")
                    [] OTHER -> FetchRejection(outcome)
    IN IF includes(thrown.message, "Too Many Requests")
          \/ includes(thrown.message, "Rate limit exceeded")
       THEN Err("Rate limit exceeded")
       ELSE thrown

\* sch.get_paper of the semanticscholarjs library: an HTTP-client error that
\* carries response.status.
LibraryError(outcome) ==
    CASE outcome = "429" ->
           [Err("Request failed with status code 429") EXCEPT !.responseStatus = 429]
      [] outcome = "500" ->
           [Err("Request failed with status code 500") EXCEPT !.responseStatus = 500]
      [] OTHER -> FetchRejection(outcome)

SearchError(p, outcome) ==
    IF p = "openalex" THEN OpenAlexError(outcome) ELSE SemanticScholarSearchError(outcome)

GetByIdError(p, outcome) ==
    IF p = "openalex" THEN OpenAlexError(outcome) ELSE LibraryError(outcome)

\* transformResults / transformSemanticScholarPaper: createdAt is the time
\* of the transformation.
transformResults(ids, t) == [i \in 1..Len(ids) |-> Paper(ids[i], t)]

(***************************************************************************)
(* The durable tier (Supabase).  A table is the set of its rows; upsert    *)
(* replaces the row with the same primary key.  A request to the store     *)
(* either completes ("ok"), completes with an error result ("error") or    *)
(* rejects ("throw").                                                      *)
(***************************************************************************)
DurableOutcomes == {"ok", "error", "throw"}
DurableError == Err("fetch failed")

SearchRows(tbl, id) == {r \in tbl : r.id = id}
PaperRows(tbl, id) == {r \in tbl : r.paperId = id}

\* an insert that leaves the row of an earlier orchestration in place
UpsertSearch_insertsRow(tbl, entry) == tbl \cup {entry}

UpsertSearch(tbl, entry) == (tbl \ SearchRows(tbl, entry.id)) \cup {entry}

\* cachePaper: created_at is paper.createdAt || now
UpsertPaper(tbl, paper, t) ==
    (tbl \ PaperRows(tbl, paper.paperId))
        \cup {Paper(paper.paperId, IF Truthy(paper.createdAt) THEN paper.createdAt ELSE t)}

\* getPaper: null on an error result or no row
getPaper(tbl, id, outcome) ==
    IF outcome = "ok" /\ PaperRows(tbl, id) # {}
    THEN Some(CHOOSE r \in PaperRows(tbl, id) : TRUE)
    ELSE None

\* getCachedSearch after its select: "miss" (error result or no row),
\* "expired" (the row is to be deleted first) or "hit"
CachedSearchState(tbl, id, outcome, t) ==
    IF outcome # "ok" \/ SearchRows(tbl, id) = {} THEN "miss"
    ELSE IF (CHOOSE r \in SearchRows(tbl, id) : TRUE).expiresAt < t THEN "expired"
    ELSE "hit"

(***************************************************************************)
(* The orchestrator.  cs[c] is the activation of searchWithCaching run by  *)
(* caller c: pc is the await it is suspended at, then the locals of        *)
(* searchWithCaching / fetchFromAPI / getOrFetchPaper / retryWithBackoff,  *)
(* then history fields that only record what happened during the call.    *)
(***************************************************************************)
NoResult ==
    [kind |-> "none", successful |-> <<>>, rateLimited |-> 0, fromCache |-> <<>>,
     totalRequested |-> 0, source |-> "", at |-> 0, entryExpiresAt |-> 0]

IdleCaller ==
    [pc |-> "idle", query |-> "", limit |-> 0, queryHash |-> "",
     results |-> <<>>, rateLimitedCount |-> 0, fromCache |-> <<>>,
     papers |-> <<>>, idx |-> 0, cur |-> None, attempt |-> 0,
     wakeAt |-> 0, after |-> "", entry |-> None, ret |-> NoResult,
     \* history
     upCalls |-> 0, rlWaits |-> 0, resident0 |-> {}, log |-> <<>>,
     topErr |-> None, topOutcome |-> "", ephHeld |-> None, durHeld |-> None, durOutcome |-> "",
     reachedFetch |-> FALSE, perPage |-> -1, issued |-> <<>>, wbOutcome |-> ""]

\* a CacheResult returned to the caller
CacheResult(successful, rateLimited, fromCache, totalRequested, source, t, exp) ==
    [kind |-> "returned", successful |-> successful, rateLimited |-> rateLimited,
     fromCache |-> fromCache, totalRequested |-> totalRequested,
     source |-> source, at |-> t, entryExpiresAt |-> exp]

Return(s, result) == [s EXCEPT !.pc = "done", !.ret = result]

\* the promise of searchWithCaching rejects
Reject(s, t) == [s EXCEPT !.pc = "done", !.ret = [NoResult EXCEPT !.kind = "thrown", !.at = t]]

\* a cache hit that reports nothing as served from cache
HitResult_emptyFromCache(entry, source, t) ==
    CacheResult(entry.results, entry.rateLimitedCount, <<>>,
                entry.totalRequested, source, t, entry.expiresAt)

\* searchWithCaching, the return on a cache hit (either tier)
HitResult(entry, source, t) ==
    CacheResult(entry.results, entry.rateLimitedCount, entry.results,
                entry.totalRequested, source, t, entry.expiresAt)

\* fetchFromAPI, the final return statement
ApiResult(s, t) ==
    CacheResult(s.results, s.rateLimitedCount, s.fromCache, s.limit, "api", t, 0)

\* an outer catch that rethrows what is not a rate limit
OuterCatch_rethrows(s, error, t) ==
    IF isRateLimitError(error)
    THEN Return([s EXCEPT !.rateLimitedCount = s.limit],
                ApiResult([s EXCEPT !.rateLimitedCount = s.limit], t))
    ELSE Reject(s, t)

\* an outer catch that counts every failure as a rate limit
OuterCatch_countsAll(s, error, t) ==
    Return([s EXCEPT !.rateLimitedCount = s.limit],
           ApiResult([s EXCEPT !.rateLimitedCount = s.limit], t))

\* fetchFromAPI, the outer catch block
OuterCatch(s, error, t) ==
    LET s1 == [s EXCEPT !.rateLimitedCount = IF isRateLimitError(error) THEN s.limit ELSE @]
    IN Return(s1, ApiResult(s1, t))

\* a per-item catch that does not count the rate limit
ItemCatch_noCount(s, error) == s

\* fetchFromAPI, the catch block of the per-item try
ItemCatch(s, error) ==
    [s EXCEPT !.rateLimitedCount = IF isRateLimitError(error) THEN @ + 1 ELSE @]

\* fetchFromAPI: a paper returned by getOrFetchPaper is pushed to results,
\* and to fromCache when its createdAt is truthy
PushResolved(s, paper, how) ==
    [s EXCEPT !.results = Append(@, paper),
              !.fromCache = IF Truthy(paper.createdAt) THEN Append(@, paper) ELSE @,
              !.log = Append(@, how)]

\* the SearchCacheEntry built after the loop
SearchResultOf(s, t) ==
    [id |-> s.queryHash, query |-> s.query, results |-> s.results,
     totalRequested |-> s.limit, successfulCount |-> Len(s.results),
     rateLimitedCount |-> s.rateLimitedCount,
     updatedAt |-> t, expiresAt |-> t + SEARCH_TTL]

\* The for loop of fetchFromAPI from item s.idx on, up to its next await:
\* items found in the browser cache are resolved synchronously; the loop
\* suspends at getPaper for the first item that misses, or, after the last
\* item, at cacheSearchResult with the entry built.
RECURSIVE LoopFrom(_, _, _, _)
LoopFrom(s, store, hs, t) ==
    IF s.idx > Len(s.papers)
    THEN [s |-> [s EXCEPT !.pc = "cache_search_result",
                          !.entry = Some(SearchResultOf(s, t))],
          store |-> store]
    ELSE LET g == BrowserCache_getPaper(store, hs, s.papers[s.idx].paperId, t)
         IN IF IsSome(g.ret)
            THEN LoopFrom([PushResolved(s, Get(g.ret), "browser") EXCEPT !.idx = @ + 1],
                          g.store, hs, t)
            ELSE [s |-> [s EXCEPT !.pc = "get_paper"], store |-> g.store]

NextItem(s, store, hs, t) == LoopFrom([s EXCEPT !.idx = @ + 1, !.cur = None], store, hs, t)

\* history: the request to the upstream client that the caller awaits from
\* time t on has been issued at t
Issue(s, t) == [s EXCEPT !.issued = IF Len(@) < MaxGrants THEN Append(@, t) ELSE @]

\* await rateLimiter.waitForNextRequest() followed by retryWithBackoff(...):
\* the grant is stamped at once, or the caller sleeps first
EnterRateLimiter(s, after, t, last, minInterval) ==
    LET d == RateLimiterDelay(t, last, minInterval)
        s1 == [s EXCEPT !.rlWaits = @ + 1, !.attempt = 0, !.after = after]
    IN IF d = 0
       THEN [s |-> Issue([s1 EXCEPT !.pc = after], t), last |-> t, granted |-> TRUE]
       ELSE [s |-> [s1 EXCEPT !.pc = "rate_limit_wait", !.wakeAt = t + d],
             last |-> last, granted |-> FALSE]

\* retryWithBackoff: setTimeout(resolve, delay) before the next attempt
Backoff(s, t) ==
    [s EXCEPT !.pc = "backoff", !.wakeAt = t + RetryDelay(s.attempt, BaseDelay)]

Record(g, granted, t) == IF granted /\ Len(g) < MaxGrants THEN Append(g, t) ELSE g

ResidentPapers(store, tbl) ==
    {e.key.id : e \in {x \in Range(store) : x.key.kind = "paper"}}
        \cup {r.paperId : r \in tbl}

\* the SearchCacheEntry the browser store holds under a key, if it holds one
\* whose own expiresAt has not passed
HeldUnexpired(store, key, t) ==
    LET i == IndexOf(store, key)
    IN IF i # 0 /\ ~(t > store[i].data.expiresAt) THEN Some(store[i].data) ELSE None

(***************************************************************************)
(* Actions of the orchestrator.  An effect is the caller's next            *)
(* activation with the browser store, the limiter's lastRequestTime and    *)
(* whether the limiter granted in this step.                               *)
(***************************************************************************)
Eff(s, store, last, granted) ==
    [s |-> s, store |-> store, last |-> last, granted |-> granted]

WithStore(r, store) == Eff(r.s, store, r.last, r.granted)

Apply(c, r) ==
    /\ cs' = [cs EXCEPT ![c] = r.s]
    /\ localStore' = r.store
    /\ lastRequestTime' = r.last
    /\ grants' = Record(grants, r.granted, now)

\* an injected failure of the environment is one event of the budget
UseFault(failed) ==
    IF failed THEN events < MaxEvents /\ events' = events + 1 ELSE events' = events

\* a failed attempt that retryWithBackoff absorbs
Retried(error, attempt) == RetryDecision(error, attempt, MaxRetries) = "retry"

\* searchWithCaching falls through to fetchFromAPI, which runs up to its
\* first await (the rate limiter's sleep or the upstream search)
StartFetch(s) ==
    EnterRateLimiter([s EXCEPT !.reachedFetch = TRUE], "search_works",
                     now, lastRequestTime, minIntervalOf(provider))

\* searchWithCaching(q, l) is called: hash, browser-cache check, and on a
\* miss the durable read is issued.
searchWithCaching(q, l) ==
    LET h == generateQueryHash(q, l)
        g == BrowserCache_getSearchResult(localStore, hasStorage, h, now)
        s == [IdleCaller EXCEPT
                !.query = q, !.limit = l, !.queryHash = h,
                !.resident0 = ResidentPapers(localStore, papersTable),
                !.ephHeld = HeldUnexpired(localStore, searchKey(h), now)]
    IN Eff(IF IsSome(g.ret)
           THEN Return(s, HitResult(Get(g.ret), "ephemeral", now))
           ELSE [s EXCEPT !.pc = "get_cached_search"],
           g.store, lastRequestTime, FALSE)

Call(c, q, l) ==
    /\ cs[c].pc \in {"idle", "done"}
    /\ calls < MaxCalls
    /\ calls' = calls + 1
    /\ Apply(c, searchWithCaching(q, l))
    /\ UNCHANGED <<now, provider, hasStorage, searchTable, papersTable, events,
                   lastOp>>

\* getCachedSearch: the select completes
GetCachedSearch(c, o) ==
    /\ cs[c].pc = "get_cached_search"
    /\ UseFault(o # "ok")
    /\ LET rows == SearchRows(searchTable, cs[c].queryHash)
           row == CHOOSE r \in rows : TRUE
           s == [cs[c] EXCEPT
                   !.durOutcome = o,
                   !.durHeld = IF rows # {} /\ ~(row.expiresAt < now) THEN Some(row) ELSE None]
           st == CachedSearchState(searchTable, s.queryHash, o, now)
       IN Apply(c,
            IF o = "throw" THEN Eff(Reject(s, now), localStore, lastRequestTime, FALSE)
            ELSE IF st = "hit"
            THEN Eff(Return(s, HitResult(row, "durable", now)),
                     BrowserCache_setSearchResult(localStore, hasStorage, s.queryHash, row, now),
                     lastRequestTime, FALSE)
            ELSE IF st = "expired"
            THEN Eff([s EXCEPT !.pc = "delete_cached_search"], localStore, lastRequestTime, FALSE)
            ELSE WithStore(StartFetch(s), localStore))
    /\ UNCHANGED <<now, provider, hasStorage, searchTable, papersTable, calls, lastOp>>

\* getCachedSearch: deleteCachedSearch of the expired row completes, null
\* is returned
DeleteCachedSearch(c, o) ==
    /\ cs[c].pc = "delete_cached_search"
    /\ UseFault(o # "ok")
    /\ searchTable' = IF o = "ok"
                      THEN searchTable \ SearchRows(searchTable, cs[c].queryHash)
                      ELSE searchTable
    /\ Apply(c, IF o = "throw"
                THEN Eff(Reject([cs[c] EXCEPT !.durOutcome = o], now),
                         localStore, lastRequestTime, FALSE)
                ELSE WithStore(StartFetch(cs[c]), localStore))
    /\ UNCHANGED <<now, provider, hasStorage, papersTable, calls, lastOp>>

\* waitForNextRequest: the timer fires, lastRequestTime = Date.now()
RateLimitTimer(c) ==
    /\ cs[c].pc = "rate_limit_wait"
    /\ now' = Max(now, cs[c].wakeAt)
    /\ cs' = [cs EXCEPT ![c] = Issue([cs[c] EXCEPT !.pc = cs[c].after], now')]
    /\ lastRequestTime' = now'
    /\ grants' = Record(grants, TRUE, now')
    /\ UNCHANGED <<provider, hasStorage, localStore, searchTable, papersTable, calls,
                   events, lastOp>>

\* retryWithBackoff: the backoff timer fires, the next attempt starts
BackoffTimer(c) ==
    /\ cs[c].pc = "backoff"
    /\ now' = Max(now, cs[c].wakeAt)
    /\ cs' = [cs EXCEPT ![c] = Issue([cs[c] EXCEPT !.pc = cs[c].after, !.attempt = @ + 1],
                                     now')]
    /\ UNCHANGED <<provider, hasStorage, localStore, searchTable, papersTable,
                   lastRequestTime, calls, events, grants, lastOp>>

\* an attempt whose final failure is written to the browser cache as an
\* empty entry
SearchAttempt_cachesFailure(c, o, charged) ==
    /\ cs[c].pc = "search_works"
    /\ UseFault(charged)
    /\ LET safeLimit == Min(cs[c].limit, SAFE_MAX)
           perPage == IF provider = "openalex" THEN PerPage(safeLimit) ELSE safeLimit
           s == [cs[c] EXCEPT !.upCalls = @ + 1, !.perPage = perPage]
           ids == UpstreamResults(s.query, perPage)
           error == SearchError(provider, o)
       IN Apply(c,
            IF o = "200"
            THEN IF provider = "semanticscholar" /\ ids = <<>>
                 THEN Eff(Return(s, CacheResult(<<>>, 0, <<>>, s.limit, "api", now, 0)),
                          localStore, lastRequestTime, FALSE)
                 ELSE LET papers == IF provider = "openalex"
                                    THEN transformResults(ids, now)
                                    ELSE [i \in 1..Len(ids) |-> Paper(ids[i], NoTime)]
                          l == LoopFrom([s EXCEPT !.papers = papers, !.idx = 1],
                                        localStore, hasStorage, now)
                      IN Eff(l.s, l.store, lastRequestTime, FALSE)
            ELSE IF RetryDecision(error, s.attempt, MaxRetries) = "retry"
            THEN Eff(Backoff(s, now), localStore, lastRequestTime, FALSE)
            ELSE Eff(OuterCatch([s EXCEPT !.topErr = Some(error), !.topOutcome = o], error, now),
                     BrowserCache_setSearchResult(localStore, hasStorage, s.queryHash,
                                                  SearchResultOf(s, now), now),
                     lastRequestTime, FALSE))
    /\ UNCHANGED <<now, provider, hasStorage, searchTable, papersTable, calls, lastOp>>

\* one attempt of the top-level search completes; charged says whether a
\* failure of the attempt is counted in the budget of events
SearchAttempt(c, o, charged) ==
    /\ cs[c].pc = "search_works"
    /\ UseFault(charged)
    /\ LET safeLimit == Min(cs[c].limit, SAFE_MAX)
           perPage == IF provider = "openalex" THEN PerPage(safeLimit) ELSE safeLimit
           s == [cs[c] EXCEPT !.upCalls = @ + 1, !.perPage = perPage]
           ids == UpstreamResults(s.query, perPage)
           error == SearchError(provider, o)
       IN Apply(c,
            IF o = "200"
            THEN IF provider = "semanticscholar" /\ ids = <<>>
                 THEN Eff(Return(s, CacheResult(<<>>, 0, <<>>, s.limit, "api", now, 0)),
                          localStore, lastRequestTime, FALSE)
                 ELSE LET papers == IF provider = "openalex"
                                    THEN transformResults(ids, now)
                                    ELSE [i \in 1..Len(ids) |-> Paper(ids[i], NoTime)]
                          l == LoopFrom([s EXCEPT !.papers = papers, !.idx = 1],
                                        localStore, hasStorage, now)
                      IN Eff(l.s, l.store, lastRequestTime, FALSE)
            ELSE IF RetryDecision(error, s.attempt, MaxRetries) = "retry"
            THEN Eff(Backoff(s, now), localStore, lastRequestTime, FALSE)
            ELSE Eff(OuterCatch([s EXCEPT !.topErr = Some(error), !.topOutcome = o], error, now),
                     localStore, lastRequestTime, FALSE))
    /\ UNCHANGED <<now, provider, hasStorage, searchTable, papersTable, calls, lastOp>>

SearchWorks(c, o) == SearchAttempt(c, o, o # "200")

\* fetchFromAPI after getOrFetchPaper returned null: the paper of the search
\* response is pushed to results (Semantic Scholar transforms it first) and
\* cachePaper is awaited
Fallback(s, p, t) ==
    LET paper == IF p = "openalex" THEN s.papers[s.idx]
                 ELSE Paper(s.papers[s.idx].paperId, t)
    IN [s EXCEPT !.results = Append(@, paper), !.log = Append(@, "fallback"),
                 !.cur = Some(paper), !.pc = "cache_paper_fallback"]

\* getOrFetchPaper: getPaper (durable) completes for the current item
GetPaper(c, o) ==
    /\ cs[c].pc = "get_paper"
    /\ UseFault(o # "ok")
    /\ LET s == cs[c]
           found == getPaper(papersTable, s.papers[s.idx].paperId, o)
       IN Apply(c,
            IF o = "throw"
            THEN LET l == NextItem([ItemCatch(s, DurableError) EXCEPT !.log = Append(@, "error")],
                                   localStore, hasStorage, now)
                 IN Eff(l.s, l.store, lastRequestTime, FALSE)
            ELSE IF IsSome(found)
            THEN LET l == NextItem(PushResolved(s, Get(found), "durable"),
                                   BrowserCache_setPaper(localStore, hasStorage, Get(found), now),
                                   hasStorage, now)
                 IN Eff(l.s, l.store, lastRequestTime, FALSE)
            ELSE WithStore(EnterRateLimiter(s, "get_work", now, lastRequestTime,
                                            minIntervalOf(provider)),
                           localStore))
    /\ UNCHANGED <<now, provider, hasStorage, searchTable, papersTable, calls, lastOp>>

\* getOrFetchPaper: one attempt of client.getWork / sch.get_paper completes
GetWorkAttempt(c, o, charged) ==
    /\ cs[c].pc = "get_work"
    /\ UseFault(charged)
    /\ LET s == [cs[c] EXCEPT !.upCalls = @ + 1]
           error == GetByIdError(provider, o)
       IN Apply(c,
            IF o = "200"
            THEN Eff([s EXCEPT !.cur = Some(Paper(s.papers[s.idx].paperId, now)),
                               !.pc = "cache_paper_fetched"],
                     localStore, lastRequestTime, FALSE)
            ELSE IF RetryDecision(error, s.attempt, MaxRetries) = "retry"
            THEN Eff(Backoff(s, now), localStore, lastRequestTime, FALSE)
            ELSE IF isRateLimitError(error)
            THEN LET l == NextItem([ItemCatch(s, error) EXCEPT !.log = Append(@, "rl")],
                                   localStore, hasStorage, now)
                 IN Eff(l.s, l.store, lastRequestTime, FALSE)
            ELSE Eff(Fallback(s, provider, now), localStore, lastRequestTime, FALSE))
    /\ UNCHANGED <<now, provider, hasStorage, searchTable, papersTable, calls, lastOp>>

GetWork(c, o) == GetWorkAttempt(c, o, o # "200")

\* getOrFetchPaper: cachePaper(processedPaper) completes, then setPaper and
\* the paper is returned; a rejection is caught and null is returned
CachePaperFetched(c, o) ==
    /\ cs[c].pc = "cache_paper_fetched"
    /\ UseFault(o # "ok")
    /\ LET s == cs[c]
           paper == Get(s.cur)
       IN /\ papersTable' = IF o = "ok" THEN UpsertPaper(papersTable, paper, now)
                            ELSE papersTable
          /\ Apply(c,
               IF o = "throw"
               THEN Eff(Fallback(s, provider, now), localStore, lastRequestTime, FALSE)
               ELSE LET l == NextItem(PushResolved(s, paper, "fetched"),
                                      BrowserCache_setPaper(localStore, hasStorage, paper, now),
                                      hasStorage, now)
                    IN Eff(l.s, l.store, lastRequestTime, FALSE))
    /\ UNCHANGED <<now, provider, hasStorage, searchTable, calls, lastOp>>

\* fetchFromAPI: cachePaper(paper) of a new paper completes, then setPaper
CachePaperFallback(c, o) ==
    /\ cs[c].pc = "cache_paper_fallback"
    /\ UseFault(o # "ok")
    /\ LET s == cs[c]
           paper == Get(s.cur)
           l == IF o = "throw"
                THEN NextItem(ItemCatch(s, DurableError), localStore, hasStorage, now)
                ELSE NextItem(s, BrowserCache_setPaper(localStore, hasStorage, paper, now),
                              hasStorage, now)
       IN /\ papersTable' = IF o = "ok" THEN UpsertPaper(papersTable, paper, now)
                            ELSE papersTable
          /\ Apply(c, Eff(l.s, l.store, lastRequestTime, FALSE))
    /\ UNCHANGED <<now, provider, hasStorage, searchTable, calls, lastOp>>

\* fetchFromAPI: cacheSearchResult completes, then setSearchResult and the
\* return; a rejection goes to the outer catch
CacheSearchResult(c, o) ==
    /\ cs[c].pc = "cache_search_result"
    /\ UseFault(o # "ok")
    /\ LET s == [cs[c] EXCEPT !.wbOutcome = o]
           entry == Get(s.entry)
       IN /\ searchTable' = IF o = "ok" THEN UpsertSearch(searchTable, entry) ELSE searchTable
          /\ Apply(c,
               IF o = "throw"
               THEN Eff(OuterCatch(s, DurableError, now), localStore, lastRequestTime, FALSE)
               ELSE Eff(Return(s, ApiResult(s, now)),
                        BrowserCache_setSearchResult(localStore, hasStorage, s.queryHash,
                                                     entry, now),
                        lastRequestTime, FALSE))
    /\ UNCHANGED <<now, provider, hasStorage, papersTable, calls, lastOp>>

(***************************************************************************)
(* The environment: time passes; the application clears the browser cache. *)
(***************************************************************************)
TickSteps == {1, CACHE_DURATION}

Tick(d) ==
    /\ events < MaxEvents
    /\ events' = events + 1
    /\ now' = now + d
    /\ UNCHANGED <<provider, hasStorage, localStore, searchTable, papersTable,
                   lastRequestTime, cs, calls, grants, lastOp>>

\* OpenAlexCache.clearCache(pattern)
clearCache(pattern) ==
    /\ events < MaxEvents
    /\ events' = events + 1
    /\ localStore # <<>>
    /\ localStore' = BrowserCache_clear(localStore, hasStorage, pattern)
    /\ UNCHANGED <<now, provider, hasStorage, searchTable, papersTable,
                   lastRequestTime, cs, calls, grants, lastOp>>

NoOp == [op |-> "none", key |-> paperKey(""), ret |-> None, before |-> <<>>, at |-> 0]

Init ==
    /\ now = Epoch
    /\ provider \in Providers
    /\ hasStorage \in BOOLEAN
    /\ localStore = <<>>
    /\ searchTable = {}
    /\ papersTable = {}
    /\ lastRequestTime = 0
    /\ cs = [c \in Callers |-> IdleCaller]
    /\ calls = 0
    /\ events = 0
    /\ grants = <<>>
    /\ lastOp = NoOp

Next ==
    \/ \E q \in Queries, l \in Limits : Call(1, q, l)
    \/ \E o \in DurableOutcomes : GetCachedSearch(1, o)
    \/ \E o \in DurableOutcomes : DeleteCachedSearch(1, o)
    \/ RateLimitTimer(1)
    \/ BackoffTimer(1)
    \/ \E o \in {"200"} \cup UpstreamFailures : SearchWorks(1, o)
    \/ \E o \in DurableOutcomes : GetPaper(1, o)
    \/ \E o \in {"200"} \cup UpstreamFailures : GetWork(1, o)
    \/ \E o \in DurableOutcomes : CachePaperFetched(1, o)
    \/ \E o \in DurableOutcomes : CachePaperFallback(1, o)
    \/ \E o \in DurableOutcomes : CacheSearchResult(1, o)
    \/ \E d \in TickSteps : Tick(d)
    \/ \E pattern \in {"", "search"} : clearCache(pattern)

Spec == Init /\ [][Next]_vars

(***************************************************************************)
(* The orchestrator on one five-item batch.  No clock ticks and no         *)
(* clearing: time passes only in the timers, far less than the TTL, so no  *)
(* entry expires and getCachedSearch never has a row to delete.            *)
(***************************************************************************)
NextBatch ==
    \/ Call(1, BatchQuery, BatchLimit)
    \/ \E o \in DurableOutcomes : GetCachedSearch(1, o)
    \/ RateLimitTimer(1)
    \/ BackoffTimer(1)
    \/ \E o \in {"200"} \cup UpstreamFailures : SearchWorks(1, o)
    \/ \E o \in DurableOutcomes : GetPaper(1, o)
    \/ \E o \in {"200"} \cup UpstreamFailures : GetWork(1, o)
    \/ \E o \in DurableOutcomes : CachePaperFetched(1, o)
    \/ \E o \in DurableOutcomes : CachePaperFallback(1, o)
    \/ \E o \in DurableOutcomes : CacheSearchResult(1, o)

SpecBatch == Init /\ [][NextBatch]_vars

(***************************************************************************)
(* The orchestrator under retries.  A failed attempt that retryWithBackoff *)
(* absorbs is not counted in the budget of events (the attempts of one     *)
(* operation are bounded by maxRetries), so an operation can fail until    *)
(* its retries are exhausted.  No clock ticks and no clearing.             *)
(***************************************************************************)
RetryQuery == "a"

NextRetry ==
    \/ \E l \in Limits : Call(1, RetryQuery, l)
    \/ \E o \in DurableOutcomes : GetCachedSearch(1, o)
    \/ RateLimitTimer(1)
    \/ BackoffTimer(1)
    \/ \E o \in {"200"} \cup UpstreamFailures :
          SearchAttempt(1, o, o # "200" /\ ~Retried(SearchError(provider, o), cs[1].attempt))
    \/ \E o \in DurableOutcomes : GetPaper(1, o)
    \/ \E o \in {"200"} \cup UpstreamFailures :
          GetWorkAttempt(1, o, o # "200" /\ ~Retried(GetByIdError(provider, o), cs[1].attempt))
    \/ \E o \in DurableOutcomes : CachePaperFetched(1, o)
    \/ \E o \in DurableOutcomes : CachePaperFallback(1, o)
    \/ \E o \in DurableOutcomes : CacheSearchResult(1, o)

SpecRetry == Init /\ [][NextRetry]_vars

(***************************************************************************)
(* The orchestrator with the content of both tiers recorded when a call    *)
(* starts, under retries as in SpecRetry.  No clock ticks and no clearing. *)
(***************************************************************************)
Tiers == [store |-> localStore, search |-> searchTable, papers |-> papersTable]

\* searchWithCaching(q, l) is called; prevFailed says that the caller's
\* previous call was for the same key, found no entry in either tier and had
\* its top-level search fail
FrameCall(c, q, l) ==
    /\ cs[c].pc \in {"idle", "done"}
    /\ calls < MaxCalls
    /\ calls' = calls + 1
    /\ Apply(c, searchWithCaching(q, l))
    /\ lastOp' = [op |-> "call", key |-> searchKey(generateQueryHash(q, l)), ret |-> None,
                  before |-> Tiers, at |-> now,
                  prevFailed |-> /\ cs[c].pc = "done"
                                 /\ cs[c].queryHash = generateQueryHash(q, l)
                                 /\ cs[c].topErr # None
                                 /\ cs[c].ephHeld = None
                                 /\ cs[c].durHeld = None]
    /\ UNCHANGED <<now, provider, hasStorage, searchTable, papersTable, events>>

NextFrame ==
    \/ \E l \in Limits : FrameCall(1, RetryQuery, l)
    \/ \E o \in DurableOutcomes : GetCachedSearch(1, o)
    \/ RateLimitTimer(1)
    \/ BackoffTimer(1)
    \/ \E o \in {"200"} \cup UpstreamFailures :
          SearchAttempt(1, o, o # "200" /\ ~Retried(SearchError(provider, o), cs[1].attempt))
    \/ \E o \in DurableOutcomes : GetPaper(1, o)
    \/ \E o \in {"200"} \cup UpstreamFailures :
          GetWorkAttempt(1, o, o # "200" /\ ~Retried(GetByIdError(provider, o), cs[1].attempt))
    \/ \E o \in DurableOutcomes : CachePaperFetched(1, o)
    \/ \E o \in DurableOutcomes : CachePaperFallback(1, o)
    \/ \E o \in DurableOutcomes : CacheSearchResult(1, o)

SpecFrame == Init /\ [][NextFrame]_vars

(***************************************************************************)
(* The orchestrator called directly with any limit: none, small, the safe  *)
(* maximum, and beyond it.  No clock ticks and no clearing.                *)
(***************************************************************************)
ClampLimits == {0, 1, SAFE_MAX, SAFE_MAX + 1, 4 * SAFE_MAX}

NextClamp ==
    \/ \E q \in Queries, l \in ClampLimits : Call(1, q, l)
    \/ \E o \in DurableOutcomes : GetCachedSearch(1, o)
    \/ RateLimitTimer(1)
    \/ BackoffTimer(1)
    \/ \E o \in {"200"} \cup UpstreamFailures : SearchWorks(1, o)
    \/ \E o \in DurableOutcomes : GetPaper(1, o)
    \/ \E o \in {"200"} \cup UpstreamFailures : GetWork(1, o)
    \/ \E o \in DurableOutcomes : CachePaperFetched(1, o)
    \/ \E o \in DurableOutcomes : CachePaperFallback(1, o)
    \/ \E o \in DurableOutcomes : CacheSearchResult(1, o)

SpecClamp == Init /\ [][NextClamp]_vars

(***************************************************************************)
(* retryWithBackoff on its own, for any operation.  cs[c] is the           *)
(* activation of retryWithBackoff run by caller c: the arguments, the loop *)
(* counter and lastError, then history fields: the errors of the attempts  *)
(* made so far, the times the attempts completed at and the delays slept.  *)
(* An attempt either yields a value or fails with one of ErrorValues.      *)
(***************************************************************************)
ErrorValues ==
    {[Err("Query is required and must be a string") EXCEPT !.validation = TRUE],
     [Err("fetch failed") EXCEPT !.status = 429],
     [Err("network timeout") EXCEPT !.status = 429],
     Err("OpenAlex API error: 429 Too Many Requests"),
     Err("network timeout"),
     [Err("fetch failed") EXCEPT !.responseStatus = 503],
     [Err("fetch failed") EXCEPT !.code = "ECONNRESET"],
     Err("fetch failed"),
     Err("OpenAlex API error: 500 Internal Server Error")}

RetryBudgets == {0, 1, MaxRetries}
BaseDelays == {BaseDelay, OpenAlexMinInterval}

IdleRetry ==
    [pc |-> "idle", maxRetries |-> 0, baseDelay |-> 0, attempt |-> 0,
     lastError |-> None, wakeAt |-> 0, after |-> "operation", ret |-> None,
     thrown |-> None,
     \* history
     errors |-> <<>>, times |-> <<>>, delays |-> <<>>, issued |-> <<>>]

\* retryWithBackoff(operation, maxRetries, baseDelay) is called and invokes
\* the operation for the first time
retryWithBackoff(c, maxRetries, baseDelay) ==
    /\ cs[c].pc \in {"idle", "returned", "thrown"}
    /\ calls < MaxCalls
    /\ calls' = calls + 1
    /\ cs' = [cs EXCEPT ![c] = [IdleRetry EXCEPT !.pc = "operation",
                                                !.maxRetries = maxRetries,
                                                !.baseDelay = baseDelay]]
    /\ UNCHANGED <<now, provider, hasStorage, localStore, searchTable, papersTable,
                   lastRequestTime, events, grants, lastOp>>

\* await operation() resolves
OperationResolves(c) ==
    /\ cs[c].pc = "operation"
    /\ cs' = [cs EXCEPT ![c].pc = "returned", ![c].ret = Some("value"),
                        ![c].times = Append(@, now)]
    /\ UNCHANGED <<now, provider, hasStorage, localStore, searchTable, papersTable,
                   lastRequestTime, calls, events, grants, lastOp>>

\* await operation() rejects with error: the catch block
OperationRejects(c, error) ==
    /\ cs[c].pc = "operation"
    /\ LET s == [cs[c] EXCEPT !.lastError = Some(error),
                              !.errors = Append(@, error),
                              !.times = Append(@, now)]
           delay == RetryDelay(s.attempt, s.baseDelay)
       IN cs' = [cs EXCEPT ![c] =
                    IF RetryDecision(error, s.attempt, s.maxRetries) = "throw"
                    THEN [s EXCEPT !.pc = "thrown", !.thrown = Some(error)]
                    ELSE [s EXCEPT !.pc = "backoff", !.wakeAt = now + delay,
                                   !.delays = Append(@, delay)]]
    /\ UNCHANGED <<now, provider, hasStorage, localStore, searchTable, papersTable,
                   lastRequestTime, calls, events, grants, lastOp>>

InitBackoff ==
    /\ now = Epoch
    /\ provider = "openalex"
    /\ hasStorage = TRUE
    /\ localStore = <<>>
    /\ searchTable = {}
    /\ papersTable = {}
    /\ lastRequestTime = 0
    /\ cs = [c \in Callers |-> IdleRetry]
    /\ calls = 0
    /\ events = 0
    /\ grants = <<>>
    /\ lastOp = NoOp

NextBackoff ==
    \/ \E m \in RetryBudgets, b \in BaseDelays : retryWithBackoff(1, m, b)
    \/ OperationResolves(1)
    \/ \E error \in ErrorValues : OperationRejects(1, error)
    \/ BackoffTimer(1)
    \/ Tick(1)

SpecBackoff == InitBackoff /\ [][NextBackoff]_vars

(***************************************************************************)
(* One RateLimiter shared by the callers: each caller calls                *)
(* waitForNextRequest again and again; a call that has to wait is          *)
(* suspended at its timer while the other caller runs.                     *)
(***************************************************************************)
waitForNextRequest(c) ==
    /\ cs[c].pc \in {"idle", "granted"}
    /\ calls < MaxGrants
    /\ calls' = calls + 1
    /\ Apply(c, WithStore(EnterRateLimiter(IdleCaller, "granted", now, lastRequestTime,
                                           minIntervalOf(provider)),
                          localStore))
    /\ UNCHANGED <<now, provider, hasStorage, searchTable, papersTable, events, lastOp>>

InitRL == Init /\ hasStorage

NextRL ==
    \/ \E c \in Callers : waitForNextRequest(c)
    \/ \E c \in Callers : RateLimitTimer(c)
    \/ \E d \in TickSteps : Tick(d)

SpecRL == InitRL /\ [][NextRL]_vars

(***************************************************************************)
(* One RateLimiter used by a single caller: every call of                  *)
(* waitForNextRequest is made after the previous one has returned.  The    *)
(* clock advances by fractions and multiples of the intervals in between.  *)
(***************************************************************************)
IntervalTicks == {1, 250, 500, 1000}

NextRLSeq ==
    \/ waitForNextRequest(1)
    \/ RateLimitTimer(1)
    \/ \E d \in IntervalTicks : Tick(d)

SpecRLSeq == InitRL /\ [][NextRLSeq]_vars

(***************************************************************************)
(* BrowserCache on its own: any sequence of its operations and clock       *)
(* ticks.  lastOp records the last operation, the value it returned, and   *)
(* the stored object and the time it ran at.                               *)
(***************************************************************************)
CacheKeys == {paperKey("W1"), paperKey("W2")}
CacheValues == {Paper("W1", NoTime), Paper("W2", NoTime)}
Durations == {0, 1}

Op(name, key, ret) ==
    [op |-> name, key |-> key, ret |-> ret, before |-> localStore, at |-> now]

CacheOp(store, op) ==
    /\ calls < MaxOps
    /\ calls' = calls + 1
    /\ localStore' = store
    /\ lastOp' = op
    /\ UNCHANGED <<now, provider, hasStorage, searchTable, papersTable,
                   lastRequestTime, cs, events, grants>>

CacheGet(k) ==
    LET r == BrowserCache_get(localStore, hasStorage, k, now)
    IN CacheOp(r.store, Op("get", k, r.ret))

CacheSet(k, v, d) ==
    CacheOp(BrowserCache_set(localStore, hasStorage, k, v, d, now), Op("set", k, Some(v)))

CacheDelete(k) ==
    CacheOp(BrowserCache_delete(localStore, hasStorage, k), Op("delete", k, None))

CacheClear(pattern) ==
    CacheOp(BrowserCache_clear(localStore, hasStorage, pattern),
            Op("clear", paperKey(pattern), None))

CacheInvalidate ==
    CacheOp(BrowserCache_invalidate(localStore, hasStorage, now),
            Op("invalidate", paperKey(""), None))

InitCache == Init /\ provider = "openalex"

NextCache ==
    \/ \E k \in CacheKeys : CacheGet(k)
    \/ \E k \in CacheKeys, v \in CacheValues, d \in Durations : CacheSet(k, v, d)
    \/ \E k \in CacheKeys : CacheDelete(k)
    \/ \E pattern \in {"", "paper"} : CacheClear(pattern)
    \/ CacheInvalidate
    \/ \E d \in TickSteps : Tick(d)

SpecCache == InitCache /\ [][NextCache]_vars

(***************************************************************************)
(* BrowserCache over a backing store whose reads and writes can fail: an   *)
(* operation runs with the getItem/JSON.parse of getCache failing, the     *)
(* setItem/removeItem failing, both or neither.                            *)
(***************************************************************************)
StorageFaults == {"none", "read", "write", "both"}

CanRead(hs, fault) == hs /\ fault \notin {"read", "both"}

CanWrite(hs, fault) == hs /\ fault \notin {"write", "both"}

StorageOp(name, key, fault, r) ==
    /\ calls < MaxOps
    /\ calls' = calls + 1
    /\ localStore' = r.store
    /\ lastOp' = [op |-> name, key |-> key, ret |-> r.ret, before |-> localStore,
                  at |-> now, fault |-> fault, threw |-> r.threw]
    /\ UNCHANGED <<now, provider, hasStorage, searchTable, papersTable,
                   lastRequestTime, cs, events, grants>>

StorageGet(k, fault) ==
    StorageOp("get", k, fault,
              BrowserCache_getRW(localStore, CanRead(hasStorage, fault),
                                 CanWrite(hasStorage, fault), k, now))

StorageSet(k, v, d, fault) ==
    StorageOp("set", k, fault,
              BrowserCache_setRW(localStore, CanRead(hasStorage, fault),
                                 CanWrite(hasStorage, fault), k, v, d, now))

StorageDelete(k, fault) ==
    StorageOp("delete", k, fault,
              BrowserCache_deleteRW(localStore, CanRead(hasStorage, fault),
                                    CanWrite(hasStorage, fault), k))

StorageClear(pattern, fault) ==
    StorageOp("clear", paperKey(pattern), fault,
              BrowserCache_clearRW(localStore, CanRead(hasStorage, fault),
                                   CanWrite(hasStorage, fault), pattern))

StorageInvalidate(fault) ==
    StorageOp("invalidate", paperKey(""), fault,
              BrowserCache_invalidateRW(localStore, CanRead(hasStorage, fault),
                                        CanWrite(hasStorage, fault), now))

StorageGetStats(fault) ==
    StorageOp("getStats", paperKey(""), fault,
              BrowserCache_getStats(localStore, CanRead(hasStorage, fault), now))

NextStorage ==
    \/ \E k \in CacheKeys, f \in StorageFaults : StorageGet(k, f)
    \/ \E k \in CacheKeys, v \in CacheValues, d \in Durations, f \in StorageFaults :
          StorageSet(k, v, d, f)
    \/ \E k \in CacheKeys, f \in StorageFaults : StorageDelete(k, f)
    \/ \E pattern \in {"", "paper"}, f \in StorageFaults : StorageClear(pattern, f)
    \/ \E f \in StorageFaults : StorageInvalidate(f)
    \/ \E f \in StorageFaults : StorageGetStats(f)
    \/ \E d \in TickSteps : Tick(d)

SpecStorage == InitCache /\ [][NextStorage]_vars

(***************************************************************************)
(* BrowserCache filled with large values: five of them exceed              *)
(* MAX_CACHE_SIZE, so the fifth insert evicts.                             *)
(***************************************************************************)
MaxEvictOps == 6

EvictKeys == {paperKey("W1"), paperKey("W2"), paperKey("W3"), paperKey("W4"),
              paperKey("W5")}

Blob(id) == [paperId |-> id, bytes |-> MAX_CACHE_SIZE \div 5]

EvictOp(store, op) ==
    /\ calls < MaxEvictOps
    /\ calls' = calls + 1
    /\ localStore' = store
    /\ lastOp' = op
    /\ UNCHANGED <<now, provider, hasStorage, searchTable, papersTable,
                   lastRequestTime, cs, events, grants>>

EvictGet(k) ==
    LET r == BrowserCache_get(localStore, hasStorage, k, now)
    IN EvictOp(r.store, Op("get", k, r.ret))

EvictSet(k) ==
    EvictOp(BrowserCache_set(localStore, hasStorage, k, Blob(k.id), 0, now),
            Op("set", k, Some(Blob(k.id))))

InitEvict == Init /\ hasStorage /\ provider = "openalex"

NextEvict ==
    \/ \E k \in EvictKeys : EvictGet(k)
    \/ \E k \in EvictKeys : EvictSet(k)
    \/ Tick(1)

SpecEvict == InitEvict /\ [][NextEvict]_vars

(***************************************************************************)
(* BrowserCache filled with values of different sizes: a small paper, and  *)
(* a value whose serialization alone is as long as MAX_CACHE_SIZE.  Sets   *)
(* made within one millisecond carry the same timestamp.                   *)
(***************************************************************************)
WholeBlob(id) == [paperId |-> id, bytes |-> MAX_CACHE_SIZE]

\* the values set under a key: the first key also takes the large one
FillValues(id) ==
    IF id = "W1" THEN {Paper(id, NoTime), WholeBlob(id)} ELSE {Paper(id, NoTime)}

\* the keys that are read and deleted
FillKeys == {paperKey("W1"), paperKey("W2")}

FillSet(k, v) ==
    EvictOp(BrowserCache_set(localStore, hasStorage, k, v, 0, now), Op("set", k, Some(v)))

FillDelete(k) ==
    EvictOp(BrowserCache_delete(localStore, hasStorage, k), Op("delete", k, None))

NextFill ==
    \/ \E k \in FillKeys : EvictGet(k)
    \/ \E k \in EvictKeys : \E v \in FillValues(k.id) : FillSet(k, v)
    \/ \E k \in FillKeys : FillDelete(k)
    \/ Tick(1)

SpecFill == InitEvict /\ [][NextFill]_vars

(***************************************************************************)
(* The search-papers API handler.  A request carries a method and a body   *)
(* {query, limit, filters}.  A query is known by the facts the validation  *)
(* looks at; a limit is absent, a number or a value of another type.       *)
(***************************************************************************)
NoQuery == "(undefined)"
Query500 == "x...x (500)"
Query501 == "x...x (501)"

RequestQueries == {NoQuery, "", " ", "a", "a<b", Query500, Query501}

\* whether the query is a string, its length, the length of its trim() and
\* whether /[<>{}[\]\\]/ matches it
QueryFacts(q) ==
    CASE q = NoQuery ->
           [isString |-> FALSE, length |-> 0, trimmed |-> 0, problematic |-> FALSE]
      [] q = "" -> [isString |-> TRUE, length |-> 0, trimmed |-> 0, problematic |-> FALSE]
      [] q = " " -> [isString |-> TRUE, length |-> 1, trimmed |-> 0, problematic |-> FALSE]
      [] q = "a<b" -> [isString |-> TRUE, length |-> 3, trimmed |-> 3, problematic |-> TRUE]
      [] q = Query500 ->
           [isString |-> TRUE, length |-> 500, trimmed |-> 500, problematic |-> FALSE]
      [] q = Query501 ->
           [isString |-> TRUE, length |-> 501, trimmed |-> 501, problematic |-> FALSE]
      [] OTHER -> [isString |-> TRUE, length |-> 1, trimmed |-> 1, problematic |-> FALSE]

NoLimit == [type |-> "undefined", value |-> 0]
Num(n) == [type |-> "number", value |-> n]

RequestLimits == {NoLimit, [type |-> "string", value |-> 5],
                  Num(-1), Num(0), Num(1), Num(SAFE_MAX), Num(SAFE_MAX + 1)}

APIValidationError(message, field) ==
    [status |-> 0, responseStatus |-> 0, code |-> "", message |-> message,
     validation |-> TRUE, field |-> field]

\* validateSearchQuery: None, or the APIValidationError it throws
validateSearchQuery(query) ==
    LET f == QueryFacts(query)
    IN IF ~f.isString \/ f.length = 0
       THEN Some(APIValidationError("Query is required and must be a string", "query"))
       ELSE IF f.trimmed = 0
       THEN Some(APIValidationError("Query cannot be empty", "query"))
       ELSE IF f.length > 500
       THEN Some(APIValidationError("Query is too long. Please use a shorter search term.",
                                    "query"))
       ELSE IF f.problematic
       THEN Some(APIValidationError("Query contains invalid characters", "query"))
       ELSE None

\* a validateLimit with no upper bound
validateLimit_noMaximum(limit) ==
    IF limit.type = "undefined" THEN [error |-> None, value |-> 10]
    ELSE IF limit.type # "number"
    THEN [error |-> Some(APIValidationError("Limit must be a number", "limit")), value |-> 0]
    ELSE IF limit.value < 1
    THEN [error |-> Some(APIValidationError("Limit must be at least 1", "limit")), value |-> 0]
    ELSE [error |-> None, value |-> limit.value]

\* validateLimit: the APIValidationError it throws, or the limit it returns
\* (the limits of the model are whole numbers, which Math.floor keeps)
validateLimit(limit) ==
    IF limit.type = "undefined" THEN [error |-> None, value |-> 10]
    ELSE IF limit.type # "number"
    THEN [error |-> Some(APIValidationError("Limit must be a number", "limit")), value |-> 0]
    ELSE IF limit.value < 1
    THEN [error |-> Some(APIValidationError("Limit must be at least 1", "limit")), value |-> 0]
    ELSE IF limit.value > 25
    THEN [error |-> Some(APIValidationError("Limit cannot exceed 25", "limit")), value |-> 0]
    ELSE [error |-> None, value |-> limit.value]

\* formatAPIError: the status and the field of the response (nothing in
\* these paths throws an APIRateLimitError or an APIServiceError)
formatAPIError(error) ==
    IF isValidationError(error) THEN [status |-> 400, field |-> error.field]
    ELSE IF isRateLimitError(error) THEN [status |-> 429, field |-> ""]
    ELSE IF isRetryableError(error) THEN [status |-> 503, field |-> ""]
    ELSE [status |-> 500, field |-> ""]

HandlerMaxRetries == 3
HandlerBaseDelay == 1000

\* what a request could touch: both cache tiers, the rate limiter and the
\* orchestrator's activation
Touched == [store |-> localStore, search |-> searchTable, papers |-> papersTable,
            last |-> lastRequestTime, grants |-> grants, cs |-> cs]

\* the handler's activation: the request, where it is, the number of
\* invocations of the operation and of backoff sleeps, and the response
Request(method, query, limit, filters) ==
    [op |-> "handler", pc |-> "validate", method |-> method, query |-> query,
     limit |-> limit, filters |-> filters, safeLimit |-> 0, attempt |-> 0, wakeAt |-> 0,
     invoked |-> 0, slept |-> 0, status |-> 0, field |-> "", before |-> Touched]

Respond(h, status, field) ==
    [h EXCEPT !.pc = "responded", !.status = status, !.field = field]

\* the handler's catch block
HandlerCatch(h, error) ==
    Respond(h, formatAPIError(error).status, formatAPIError(error).field)

\* the catch block of retryWithBackoff(operation, 3, 1000); what it rethrows
\* reaches the handler's catch block
Caught(h, error) ==
    IF RetryDecision(error, h.attempt, HandlerMaxRetries) = "throw"
    THEN HandlerCatch(h, error)
    ELSE [h EXCEPT !.pc = "backoff", !.slept = @ + 1,
                   !.wakeAt = now + RetryDelay(h.attempt, HandlerBaseDelay)]

HandlerIdle == lastOp.op = "none" \/ (lastOp.op = "handler" /\ lastOp.pc = "responded")

\* handler(req, res) up to its first await
Handler(method, query, limit, filters) ==
    /\ HandlerIdle
    /\ cs[1].pc \in {"idle", "done"}
    /\ calls < MaxCalls
    /\ calls' = calls + 1
    /\ LET h == Request(method, query, limit, filters)
           vq == validateSearchQuery(query)
           vl == validateLimit(limit)
           ok == [h EXCEPT !.safeLimit = vl.value, !.invoked = 1]
       IN IF method # "POST"
          THEN /\ lastOp' = Respond(h, 405, "")
               /\ UNCHANGED <<localStore, lastRequestTime, cs, grants>>
          ELSE IF IsSome(vq)
          THEN /\ lastOp' = HandlerCatch(h, Get(vq))
               /\ UNCHANGED <<localStore, lastRequestTime, cs, grants>>
          ELSE IF IsSome(vl.error)
          THEN /\ lastOp' = HandlerCatch(h, Get(vl.error))
               /\ UNCHANGED <<localStore, lastRequestTime, cs, grants>>
          ELSE IF filters
          THEN /\ lastOp' = [ok EXCEPT !.pc = "search_works_with_filters"]
               /\ UNCHANGED <<localStore, lastRequestTime, cs, grants>>
          ELSE /\ lastOp' = [ok EXCEPT !.pc = "search_with_caching"]
               /\ Apply(1, searchWithCaching(query, vl.value))
    /\ UNCHANGED <<now, provider, hasStorage, searchTable, papersTable, events>>

\* client.searchWorksWithFilters settles: the response of the upstream
\* search, unless retryWithBackoff absorbs the failure
HandlerSearchWorks(o) ==
    /\ lastOp.op = "handler"
    /\ lastOp.pc = "search_works_with_filters"
    /\ UseFault(o # "200"
                /\ RetryDecision(OpenAlexError(o), lastOp.attempt, HandlerMaxRetries) # "retry")
    /\ lastOp' = IF o = "200" THEN Respond(lastOp, 200, "")
                 ELSE Caught(lastOp, OpenAlexError(o))
    /\ UNCHANGED <<now, provider, hasStorage, localStore, searchTable, papersTable,
                   lastRequestTime, cs, calls, grants>>

\* OpenAlexCache.searchWithCaching settles
HandlerSettle ==
    /\ lastOp.op = "handler"
    /\ lastOp.pc = "search_with_caching"
    /\ cs[1].pc = "done"
    /\ lastOp' = IF cs[1].ret.kind = "returned" THEN Respond(lastOp, 200, "")
                 ELSE Caught(lastOp, DurableError)
    /\ UNCHANGED <<now, provider, hasStorage, localStore, searchTable, papersTable,
                   lastRequestTime, cs, calls, events, grants>>

\* the backoff timer of the handler's retryWithBackoff fires and the
\* operation is invoked again
HandlerBackoffTimer ==
    /\ lastOp.op = "handler"
    /\ lastOp.pc = "backoff"
    /\ now' = Max(now, lastOp.wakeAt)
    /\ lastOp' = [lastOp EXCEPT !.pc = "invoke", !.attempt = @ + 1]
    /\ UNCHANGED <<provider, hasStorage, localStore, searchTable, papersTable,
                   lastRequestTime, cs, calls, events, grants>>

HandlerInvoke ==
    /\ lastOp.op = "handler"
    /\ lastOp.pc = "invoke"
    /\ IF lastOp.filters
       THEN /\ lastOp' = [lastOp EXCEPT !.pc = "search_works_with_filters", !.invoked = @ + 1]
            /\ UNCHANGED <<localStore, lastRequestTime, cs, grants>>
       ELSE /\ lastOp' = [lastOp EXCEPT !.pc = "search_with_caching", !.invoked = @ + 1]
            /\ Apply(1, searchWithCaching(lastOp.query, lastOp.safeLimit))
    /\ UNCHANGED <<now, provider, hasStorage, searchTable, papersTable, calls, events>>

InitHandler == Init /\ provider = "openalex"

NextHandler ==
    \/ \E method \in {"POST", "GET"}, query \in RequestQueries, limit \in RequestLimits,
          filters \in BOOLEAN : Handler(method, query, limit, filters)
    \/ \E o \in {"200"} \cup UpstreamFailures : HandlerSearchWorks(o)
    \/ HandlerSettle
    \/ HandlerBackoffTimer
    \/ HandlerInvoke
    \/ \E o \in DurableOutcomes : GetCachedSearch(1, o)
    \/ RateLimitTimer(1)
    \/ BackoffTimer(1)
    \/ \E o \in {"200"} \cup UpstreamFailures : SearchWorks(1, o)
    \/ \E o \in DurableOutcomes : GetPaper(1, o)
    \/ \E o \in {"200"} \cup UpstreamFailures : GetWork(1, o)
    \/ \E o \in DurableOutcomes : CachePaperFetched(1, o)
    \/ \E o \in DurableOutcomes : CachePaperFallback(1, o)
    \/ \E o \in DurableOutcomes : CacheSearchResult(1, o)

SpecHandler == InitHandler /\ [][NextHandler]_vars

(***************************************************************************)
(* The specialized searches of OpenAlexCache next to searchWithCaching.    *)
(* searchRecentPapers and searchOpenAccessPapers ask the provider for a    *)
(* filtered, re-sorted result and keep it in both tiers under the hash of  *)
(* `${query}_recent` or `${query}_oa` and the limit.  lastOp records the    *)
(* keys under which a specialized call has read or written an entry and    *)
(* the keys that searchWithCaching calls have derived.                      *)
(***************************************************************************)
SpecialKinds == {"recent", "oa"}
SpecialSuffix(kind) == IF kind = "recent" THEN "_recent" ELSE "_oa"
SpecialLabel(kind) == IF kind = "recent" THEN " (recent)" ELSE " (open access)"

\* the works of the catalog that pass the filter of the specialized search
\* (publication_year 2020-2024 and type article, or is_oa)
PassesFilter(kind, id) ==
    IF kind = "recent" THEN id \in {"W2", "W4"} ELSE id \in {"W1", "W4", "W5"}

FilteredResults(query, kind, perPage) ==
    LET all == SelectSeq(Catalog(query), LAMBDA id : PassesFilter(kind, id))
    IN SubSeq(all, 1, Min(perPage, Len(all)))

SpecialQueries == {"a", "a_recent", "a_oa"}
SpecialLimits == {1}

NoKeys == [special |-> {}, plain |-> {}]

\* the return of a specialized search from its catch block
SpecialCatch(s, t) == Return(s, CacheResult(<<>>, s.limit, <<>>, s.limit, "api", t, 0))

\* searchRecentPapers(q, l) / searchOpenAccessPapers(q, l) is called: hash,
\* browser-cache check, and on a miss the rate limiter
specialSearch(kind, q, l) ==
    LET h == generateQueryHash(q \o SpecialSuffix(kind), l)
        g == BrowserCache_getSearchResult(localStore, hasStorage, h, now)
        s == [IdleCaller EXCEPT !.query = q, !.limit = l, !.queryHash = h,
                                !.topOutcome = kind]
    IN IF IsSome(g.ret)
       THEN Eff(Return(s, HitResult(Get(g.ret), "ephemeral", now)),
                g.store, lastRequestTime, FALSE)
       ELSE WithStore(EnterRateLimiter(s, "special_search", now, lastRequestTime,
                                       minIntervalOf(provider)),
                      g.store)

SpecialCall(c, kind, q, l) ==
    /\ cs[c].pc \in {"idle", "done"}
    /\ calls < MaxCalls
    /\ calls' = calls + 1
    /\ LET r == specialSearch(kind, q, l)
       IN /\ Apply(c, r)
          /\ lastOp' = IF r.s.pc = "done"
                       THEN [lastOp EXCEPT !.special = @ \cup {searchKey(r.s.queryHash)}]
                       ELSE lastOp
    /\ UNCHANGED <<now, provider, hasStorage, searchTable, papersTable, events>>

PlainCall(c, q, l) ==
    /\ cs[c].pc \in {"idle", "done"}
    /\ calls < MaxCalls
    /\ calls' = calls + 1
    /\ Apply(c, searchWithCaching(q, l))
    /\ lastOp' = [lastOp EXCEPT !.plain = @ \cup {searchKey(generateQueryHash(q, l))}]
    /\ UNCHANGED <<now, provider, hasStorage, searchTable, papersTable, events>>

\* one attempt of client.searchRecentPapers / searchOpenAccessPapers
\* completes; on success the entry is built and cacheSearchResult awaited
SpecialSearchAttempt(c, o) ==
    /\ cs[c].pc = "special_search"
    /\ UseFault(o # "200")
    /\ LET s == [cs[c] EXCEPT !.upCalls = @ + 1]
           kind == s.topOutcome
           ids == FilteredResults(s.query, kind, PerPage(s.limit))
           papers == transformResults(ids, now)
           error == OpenAlexError(o)
           entry == [id |-> s.queryHash, query |-> s.query \o SpecialLabel(kind),
                     results |-> papers, totalRequested |-> s.limit,
                     successfulCount |-> Len(papers), rateLimitedCount |-> 0,
                     updatedAt |-> now, expiresAt |-> now + SEARCH_TTL]
       IN Apply(c,
            IF o = "200"
            THEN Eff([s EXCEPT !.pc = "special_cache", !.results = papers,
                               !.entry = Some(entry)],
                     localStore, lastRequestTime, FALSE)
            ELSE IF RetryDecision(error, s.attempt, MaxRetries) = "retry"
            THEN Eff(Backoff(s, now), localStore, lastRequestTime, FALSE)
            ELSE Eff(SpecialCatch(s, now), localStore, lastRequestTime, FALSE))
    /\ UNCHANGED <<now, provider, hasStorage, searchTable, papersTable, calls, lastOp>>

\* cacheSearchResult completes, then BrowserCache.setSearchResult and the
\* return; a rejection goes to the catch block
SpecialCacheSearchResult(c, o) ==
    /\ cs[c].pc = "special_cache"
    /\ UseFault(o # "ok")
    /\ LET s == cs[c]
           entry == Get(s.entry)
       IN /\ searchTable' = IF o = "ok" THEN UpsertSearch(searchTable, entry) ELSE searchTable
          /\ Apply(c,
               IF o = "throw"
               THEN Eff(SpecialCatch(s, now), localStore, lastRequestTime, FALSE)
               ELSE Eff(Return(s, CacheResult(s.results, 0, <<>>, s.limit, "api", now, 0)),
                        BrowserCache_setSearchResult(localStore, hasStorage, s.queryHash,
                                                     entry, now),
                        lastRequestTime, FALSE))
          /\ lastOp' = IF o = "throw" THEN lastOp
                       ELSE [lastOp EXCEPT !.special = @ \cup {searchKey(s.queryHash)}]
    /\ UNCHANGED <<now, provider, hasStorage, papersTable, calls>>

InitSpecial ==
    /\ now = Epoch
    /\ provider = "openalex"
    /\ hasStorage \in BOOLEAN
    /\ localStore = <<>>
    /\ searchTable = {}
    /\ papersTable = {}
    /\ lastRequestTime = 0
    /\ cs = [c \in Callers |-> IdleCaller]
    /\ calls = 0
    /\ events = 0
    /\ grants = <<>>
    /\ lastOp = NoKeys

NextSpecial ==
    \/ \E kind \in SpecialKinds, q \in SpecialQueries, l \in SpecialLimits :
          SpecialCall(1, kind, q, l)
    \/ \E q \in SpecialQueries, l \in SpecialLimits : PlainCall(1, q, l)
    \/ \E o \in {"200"} \cup UpstreamFailures : SpecialSearchAttempt(1, o)
    \/ \E o \in DurableOutcomes : SpecialCacheSearchResult(1, o)
    \/ \E o \in DurableOutcomes : GetCachedSearch(1, o)
    \/ \E o \in DurableOutcomes : DeleteCachedSearch(1, o)
    \/ RateLimitTimer(1)
    \/ BackoffTimer(1)
    \/ \E o \in {"200"} \cup UpstreamFailures : SearchWorks(1, o)
    \/ \E o \in DurableOutcomes : GetPaper(1, o)
    \/ \E o \in {"200"} \cup UpstreamFailures : GetWork(1, o)
    \/ \E o \in DurableOutcomes : CachePaperFetched(1, o)
    \/ \E o \in DurableOutcomes : CachePaperFallback(1, o)
    \/ \E o \in DurableOutcomes : CacheSearchResult(1, o)
    \/ \E d \in TickSteps : Tick(d)

SpecSpecial == InitSpecial /\ [][NextSpecial]_vars

(***************************************************************************)
(* Two orchestrations at once.  Callers 1 and 2 run searchWithCaching for  *)
(* the same query on the same page (one OpenAlexCache, one BrowserCache,   *)
(* one durable store); between two awaits a caller runs alone, and at      *)
(* every await the other caller may run.                                   *)
(***************************************************************************)
InitPair == Init /\ provider = "openalex"

PairLimits == {1}

\* each caller makes one call
PairCall(c, l) == cs[c].pc = "idle" /\ Call(c, RetryQuery, l)

NextPair ==
    \/ \E c \in Callers, l \in PairLimits : PairCall(c, l)
    \/ \E c \in Callers, o \in DurableOutcomes : GetCachedSearch(c, o)
    \/ \E c \in Callers : RateLimitTimer(c)
    \/ \E c \in Callers : BackoffTimer(c)
    \/ \E c \in Callers, o \in {"200"} \cup UpstreamFailures : SearchWorks(c, o)
    \/ \E c \in Callers, o \in DurableOutcomes : GetPaper(c, o)
    \/ \E c \in Callers, o \in {"200"} \cup UpstreamFailures : GetWork(c, o)
    \/ \E c \in Callers, o \in DurableOutcomes : CachePaperFetched(c, o)
    \/ \E c \in Callers, o \in DurableOutcomes : CachePaperFallback(c, o)
    \/ \E c \in Callers, o \in DurableOutcomes : CacheSearchResult(c, o)

SpecPair == InitPair /\ [][NextPair]_vars

(***************************************************************************)
(* The orchestrator with its scheduling.  Every operation a call awaits    *)
(* (the durable store, the provider, a timer) settles, and the event loop  *)
(* then runs the continuation of the call: a step of the call that is      *)
(* possible is eventually taken.  Whether another call is made is up to    *)
(* the application.                                                        *)
(***************************************************************************)
Continue(c) ==
    \/ \E o \in DurableOutcomes : GetCachedSearch(c, o)
    \/ RateLimitTimer(c)
    \/ BackoffTimer(c)
    \/ \E o \in {"200"} \cup UpstreamFailures :
          SearchAttempt(c, o, o # "200" /\ ~Retried(SearchError(provider, o), cs[c].attempt))
    \/ \E o \in DurableOutcomes : GetPaper(c, o)
    \/ \E o \in {"200"} \cup UpstreamFailures :
          GetWorkAttempt(c, o, o # "200" /\ ~Retried(GetByIdError(provider, o), cs[c].attempt))
    \/ \E o \in DurableOutcomes : CachePaperFetched(c, o)
    \/ \E o \in DurableOutcomes : CachePaperFallback(c, o)
    \/ \E o \in DurableOutcomes : CacheSearchResult(c, o)

InitLive == Init /\ provider = "openalex"

NextLive ==
    \/ \E l \in Limits : Call(1, RetryQuery, l)
    \/ Continue(1)

SpecLive == InitLive /\ [][NextLive]_vars /\ WF_vars(Continue(1))

(***************************************************************************)
(* The same sequence of calls run twice: run "A" with a working browser    *)
(* cache, then run "B" from the same initial state with the browser cache  *)
(* a permanent no-op (localStorage unavailable).  A script fixes, for each *)
(* call, what the environment does in both runs: the time that passes      *)
(* before the call, the outcome of the provider's search and get-by-id     *)
(* requests made during the call, and whether the durable write-back takes *)
(* time.  The durable store is healthy.  lastOp holds the script, the run, *)
(* the times at which run A made its calls and the results it returned.    *)
(***************************************************************************)
TwinGaps == {1, SEARCH_TTL, SEARCH_TTL + 1}

ScriptSteps ==
    [gap : TwinGaps, search : {"200"} \cup UpstreamFailures,
     work : {"200"} \cup UpstreamFailures, slowWrite : BOOLEAN]

Scripts == [1..MaxCalls -> ScriptSteps]

\* what the claim compares of a settled call
Outcome(ret) ==
    [kind |-> ret.kind, successful |-> PaperIdsOf(ret.successful),
     rateLimited |-> ret.rateLimited, totalRequested |-> ret.totalRequested]

\* the script's step for the call in progress
ScriptNow == lastOp.script[Max(calls, 1)]

\* the application waits until the time of its next call
TwinWait ==
    /\ cs[1].pc \in {"idle", "done"}
    /\ calls < MaxCalls
    /\ ~lastOp.ready
    /\ LET n == calls + 1
           t == IF lastOp.run = "A"
                THEN (IF n = 1 THEN now ELSE now + lastOp.script[n].gap)
                ELSE lastOp.at[n]
       IN /\ now <= t
          /\ now' = t
          /\ lastOp' = [lastOp EXCEPT
                          !.ready = TRUE,
                          !.at = IF lastOp.run = "A" THEN Append(@, t) ELSE @,
                          !.results = IF lastOp.run = "A" /\ n > 1
                                      THEN Append(@, Outcome(cs[1].ret)) ELSE @]
    /\ UNCHANGED <<provider, hasStorage, localStore, searchTable, papersTable,
                   lastRequestTime, cs, calls, events, grants>>

TwinCall(q, l) ==
    /\ lastOp.ready
    /\ lastOp.limit = l
    /\ calls' = calls + 1
    /\ Apply(1, searchWithCaching(q, l))
    /\ lastOp' = [lastOp EXCEPT !.ready = FALSE]
    /\ UNCHANGED <<now, provider, hasStorage, searchTable, papersTable, events>>

\* the durable write-back of this call takes a millisecond
TwinSlowWrite ==
    /\ cs[1].pc = "cache_search_result"
    /\ ScriptNow.slowWrite
    /\ now = Get(cs[1].entry).updatedAt
    /\ now' = now + 1
    /\ UNCHANGED <<provider, hasStorage, localStore, searchTable, papersTable,
                   lastRequestTime, cs, calls, events, grants, lastOp>>

TwinCacheSearchResult ==
    /\ cs[1].pc = "cache_search_result"
    /\ ScriptNow.slowWrite => now > Get(cs[1].entry).updatedAt
    /\ CacheSearchResult(1, "ok")

\* run A is over; run B starts from the initial state without localStorage
TwinSwitch ==
    /\ lastOp.run = "A"
    /\ calls = MaxCalls
    /\ cs[1].pc = "done"
    /\ now' = Epoch
    /\ hasStorage' = FALSE
    /\ localStore' = <<>>
    /\ searchTable' = {}
    /\ papersTable' = {}
    /\ lastRequestTime' = 0
    /\ cs' = [c \in Callers |-> IdleCaller]
    /\ calls' = 0
    /\ grants' = <<>>
    /\ lastOp' = [lastOp EXCEPT !.run = "B",
                                !.results = Append(@, Outcome(cs[1].ret))]
    /\ UNCHANGED <<provider, events>>

InitTwin ==
    /\ now = Epoch
    /\ provider = "openalex"
    /\ hasStorage = TRUE
    /\ localStore = <<>>
    /\ searchTable = {}
    /\ papersTable = {}
    /\ lastRequestTime = 0
    /\ cs = [c \in Callers |-> IdleCaller]
    /\ calls = 0
    /\ events = 0
    /\ grants = <<>>
    /\ \E sc \in Scripts, l \in Limits :
          lastOp = [run |-> "A", script |-> sc, limit |-> l, ready |-> FALSE,
                    at |-> <<>>, results |-> <<>>]

NextTwin ==
    \/ TwinWait
    \/ \E l \in Limits : TwinCall(RetryQuery, l)
    \/ GetCachedSearch(1, "ok")
    \/ DeleteCachedSearch(1, "ok")
    \/ RateLimitTimer(1)
    \/ BackoffTimer(1)
    \/ SearchAttempt(1, ScriptNow.search, FALSE)
    \/ GetPaper(1, "ok")
    \/ GetWorkAttempt(1, ScriptNow.work, FALSE)
    \/ CachePaperFetched(1, "ok")
    \/ CachePaperFallback(1, "ok")
    \/ TwinSlowWrite
    \/ TwinCacheSearchResult
    \/ TwinSwitch

SpecTwin == InitTwin /\ [][NextTwin]_vars

(***************************************************************************)
(* Claims.                                                                 *)
(***************************************************************************)
Done(c) == cs[c].pc = "done"
Returned(c) == Done(c) /\ cs[c].ret.kind = "returned"
FromApi(c) == Returned(c) /\ cs[c].ret.source = "api"

\* the call of caller c found both tiers cold and everything healthy: no
\* search entry, none of the returned papers resident, every item fetched
ColdAndHealthy(c) ==
    /\ FromApi(c)
    /\ cs[c].topErr = None
    /\ cs[c].ephHeld = None /\ cs[c].durHeld = None /\ cs[c].durOutcome = "ok"
    /\ Len(cs[c].papers) = cs[c].limit
    /\ Range(PaperIdsOf(cs[c].papers)) \cap cs[c].resident0 = {}
    /\ Len(cs[c].log) = Len(cs[c].papers)
    /\ \A i \in 1..Len(cs[c].log) : cs[c].log[i] = "fetched"

\* C1: on a cold cache against a healthy upstream that returns n items for
\* limit n, searchWithCaching returns exactly those n papers as successful,
\* an empty fromCache, rateLimited = 0 and totalRequested = n; and every
\* paper listed in fromCache of a fetched result was resident in a Paper
\* cache before the call began.
C1_ColdCacheResult ==
    \A c \in Callers :
        /\ ColdAndHealthy(c) =>
              /\ PaperIdsOf(cs[c].ret.successful) = PaperIdsOf(cs[c].papers)
              /\ cs[c].ret.fromCache = <<>>
              /\ cs[c].ret.rateLimited = 0
              /\ cs[c].ret.totalRequested = cs[c].limit
        /\ FromApi(c) =>
              Range(PaperIdsOf(cs[c].ret.fromCache)) \subseteq cs[c].resident0

\* the entry a tier held, unexpired, when the call of caller c checked it
HeldEntry(c) == IF IsSome(cs[c].ephHeld) THEN cs[c].ephHeld ELSE cs[c].durHeld

ServedFrom(c, entry) ==
    /\ Returned(c)
    /\ cs[c].ret.successful = entry.results
    /\ cs[c].ret.fromCache = entry.results
    /\ cs[c].ret.rateLimited = entry.rateLimitedCount
    /\ cs[c].upCalls = 0
    /\ cs[c].rlWaits = 0

\* C2 as stated: whenever either tier holds an unexpired entry for the key,
\* the call returns that entry's results as successful and fromCache and its
\* rateLimitedCount, with no rate-limiter wait and no upstream call.
C2_HeldEntryIsServed ==
    \A c \in Callers :
        IsSome(HeldEntry(c)) =>
            /\ cs[c].upCalls = 0 /\ cs[c].rlWaits = 0
            /\ Done(c) => ServedFrom(c, Get(HeldEntry(c)))

\* C2 amended: whenever the browser cache holds an unexpired entry for the
\* key, or it misses and the durable read completes without an error and
\* finds an unexpired entry, the call returns that entry's results as
\* successful and fromCache and its rateLimitedCount, with no rate-limiter
\* wait and no upstream call.
C2_ReadableEntryIsServed ==
    \A c \in Callers :
        IsSome(HeldEntry(c)) /\ (IsSome(cs[c].ephHeld) \/ cs[c].durOutcome = "ok") =>
            /\ cs[c].upCalls = 0 /\ cs[c].rlWaits = 0
            /\ Done(c) => ServedFrom(c, Get(HeldEntry(c)))

\* a repeated call is served from the durable tier: no upstream call
C2_Witness ==
    \E c \in Callers :
        /\ Done(c) /\ cs[c].ephHeld = None /\ IsSome(cs[c].durHeld)
        /\ cs[c].durOutcome = "ok"
        /\ cs[c].ret.source = "durable" /\ Len(cs[c].ret.fromCache) = 2
        /\ cs[c].upCalls = 0

\* C3: searchWithCaching never serves a SearchCacheEntry whose own expiresAt
\* has passed, from either tier.
C3_NeverServesExpired ==
    \A c \in Callers :
        Returned(c) /\ cs[c].ret.source \in {"ephemeral", "durable"}
            => ~(cs[c].ret.at > cs[c].ret.entryExpiresAt)

\* the envelope stored under the key of the last operation, before it ran
Before(k) == lastOp.before[IndexOf(lastOp.before, k)]
ExpiredBefore(k) == IndexOf(lastOp.before, k) # 0 /\ lastOp.at > Before(k).expiresAt

\* C4: once the time is past an envelope's expiresAt, get(k) returns null
\* and removes the entry from the store; get never returns an expired
\* entry; invalidate() removes all expired entries and no unexpired one.
C4_ExpiredNeverReturned ==
    /\ lastOp.op = "get" =>
          /\ ExpiredBefore(lastOp.key) =>
                lastOp.ret = None /\ IndexOf(localStore, lastOp.key) = 0
          /\ IsSome(lastOp.ret) =>
                IndexOf(lastOp.before, lastOp.key) # 0 /\ ~ExpiredBefore(lastOp.key)
    /\ lastOp.op = "invalidate" =>
          localStore = SelectSeq(lastOp.before, LAMBDA e : ~(lastOp.at > e.expiresAt))

\* get(k) ran on an expired entry while another, unexpired entry was stored
C4_Witness ==
    /\ lastOp.op = "get"
    /\ ExpiredBefore(lastOp.key)
    /\ Len(lastOp.before) = 2
    /\ localStore # <<>>

\* C5: an upstream failure never makes searchWithCaching throw: a call that
\* reached the upstream fetch returns a CacheResult whose totalRequested is
\* the requested limit.
C5_UpstreamFailureReturns ==
    \A c \in Callers :
        Done(c) /\ cs[c].reachedFetch =>
            cs[c].ret.kind = "returned" /\ cs[c].ret.totalRequested = cs[c].limit

\* the search succeeded, the get-by-id call of the one item failed on every
\* attempt until its retries were exhausted, and the call returned
C5_Witness ==
    \E c \in Callers :
        /\ FromApi(c) /\ cs[c].topErr = None /\ cs[c].limit = 1
        /\ cs[c].log = <<"fallback">>
        /\ cs[c].attempt = MaxRetries /\ cs[c].upCalls = MaxRetries + 2
        /\ cs[c].ret.totalRequested = cs[c].limit

\* C6: when both tiers miss and the top-level search fails with HTTP 429,
\* the orchestrator (OpenAlexCache and SemanticScholarCache alike) returns
\* successful = [], fromCache = [], rateLimited = limit, totalRequested = limit.
C6_TopLevel429 ==
    \A c \in Callers :
        Done(c) /\ cs[c].topOutcome = "429" =>
            /\ cs[c].ret.kind = "returned"
            /\ cs[c].ret.successful = <<>>
            /\ cs[c].ret.fromCache = <<>>
            /\ cs[c].ret.rateLimited = cs[c].limit
            /\ cs[c].ret.totalRequested = cs[c].limit

\* C7: when both tiers miss and the top-level search fails with an error
\* that is not a rate limit, the call returns successful = [],
\* rateLimited = 0, totalRequested = limit.
C7_TopLevelOtherFailure ==
    \A c \in Callers :
        Done(c) /\ IsSome(cs[c].topErr) /\ ~isRateLimitError(Get(cs[c].topErr)) =>
            /\ cs[c].ret.kind = "returned"
            /\ cs[c].ret.successful = <<>>
            /\ cs[c].ret.rateLimited = 0
            /\ cs[c].ret.totalRequested = cs[c].limit

\* the top-level search timed out on every attempt until its retries were
\* exhausted, and the call returned nothing with rateLimited = 0
C7_Witness ==
    \E c \in Callers :
        /\ Returned(c) /\ cs[c].topOutcome = "timeout" /\ cs[c].limit = 2
        /\ cs[c].attempt = MaxRetries /\ cs[c].upCalls = MaxRetries + 1
        /\ cs[c].ret.successful = <<>> /\ cs[c].ret.rateLimited = 0

\* the items of the batch that were kept: those whose resolution did not throw
RECURSIVE KeptIds(_, _)
KeptIds(papers, log) ==
    IF papers = <<>> \/ log = <<>> THEN <<>>
    ELSE IF Head(log) \in {"rl", "error"}
         THEN KeptIds(Tail(papers), Tail(log))
         ELSE <<Head(papers).paperId>> \o KeptIds(Tail(papers), Tail(log))

RateLimitedItems(c) == {i \in 1..Len(cs[c].log) : cs[c].log[i] = "rl"}

\* C8: in the per-item loop, each item whose resolution throws a
\* rate-limit error adds exactly 1 to rateLimited and is absent from
\* successful, and every other item of the batch is still processed, in
\* order.
C8_PartialSuccess ==
    \A c \in Callers :
        FromApi(c) /\ cs[c].topErr = None =>
            /\ Len(cs[c].log) = Len(cs[c].papers)
            /\ cs[c].ret.rateLimited = Cardinality(RateLimitedItems(c))
            /\ \A i \in RateLimitedItems(c) :
                  cs[c].papers[i].paperId \notin Range(PaperIdsOf(cs[c].ret.successful))
            /\ PaperIdsOf(cs[c].ret.successful) = KeptIds(cs[c].papers, cs[c].log)

\* a five-item batch whose third item fails rate-limited and whose other
\* items are fetched: four successful, one rate-limited
C8_Witness ==
    \E c \in Callers :
        /\ FromApi(c)
        /\ cs[c].log = <<"fetched", "fetched", "rl", "fetched", "fetched">>
        /\ Len(cs[c].ret.successful) = 4
        /\ cs[c].ret.rateLimited = 1

\* C9: if the durable read of the cache check fails, by reporting an error
\* or by raising one, searchWithCaching does not abort: it falls through to
\* the upstream fetch and returns that fetch's CacheResult.
C9_DurableReadFailureFallsThrough ==
    \A c \in Callers :
        Done(c) /\ cs[c].durOutcome \in {"error", "throw"} =>
            /\ cs[c].ret.kind = "returned"
            /\ cs[c].reachedFetch
            /\ cs[c].ret.source = "api"

\* C10: any two grants of one shared RateLimiter are stamped at least
\* minInterval apart.
C10_GrantsSpaced ==
    \A i, j \in 1..Len(grants) :
        i < j => grants[j] - grants[i] >= minIntervalOf(provider)

\* C11: for a single caller making strictly sequential waitForNextRequest
\* calls, every grant is stamped at least minInterval after the previous
\* one, and the first call on a fresh limiter is granted without waiting.
C11_SequentialGrantsSpaced ==
    /\ \A i \in 1..(Len(grants) - 1) :
          grants[i + 1] - grants[i] >= minIntervalOf(provider)
    /\ calls = 1 => cs[1].pc = "granted" /\ Len(grants) = 1 /\ cs[1].wakeAt = 0

\* the second call came less than minInterval after the first grant, slept,
\* and was granted
C11_Witness ==
    /\ Len(grants) = 2 /\ calls = 2 /\ cs[1].pc = "granted"
    /\ cs[1].wakeAt = grants[1] + minIntervalOf(provider)
    /\ grants[2] >= cs[1].wakeAt

\* the run of retryWithBackoff by caller c is over
Thrown(c) == cs[c].pc = "thrown"

Unclassified(error) ==
    ~isValidationError(error) /\ ~isRateLimitError(error) /\ ~isRetryableError(error)

OnlyRetryable(error) ==
    isRetryableError(error) /\ ~isValidationError(error) /\ ~isRateLimitError(error)

\* C12: when the first failure is validation- or rate-limit-classified,
\* also when it satisfies the retryable predicate, retryWithBackoff has
\* invoked the operation exactly once and rethrows that error at once, with
\* no backoff delay.
C12_NoRetryOnValidationOrRateLimit ==
    \A c \in Callers :
        cs[c].errors # <<>>
          /\ (isValidationError(cs[c].errors[1]) \/ isRateLimitError(cs[c].errors[1]))
        => /\ Thrown(c)
           /\ cs[c].thrown = Some(cs[c].errors[1])
           /\ Len(cs[c].times) = 1
           /\ cs[c].delays = <<>>

\* a 429 status together with a timeout message, thrown after one attempt
\* of a run that had three retries to spend
C12_Witness ==
    \E c \in Callers :
        /\ Thrown(c) /\ cs[c].maxRetries = MaxRetries
        /\ cs[c].errors = <<[Err("network timeout") EXCEPT !.status = 429]>>
        /\ isRetryableError(cs[c].errors[1])

\* C13: a run whose attempts all fail with retryable-classified errors
\* makes exactly maxRetries + 1 attempts, sleeps baseDelay * 2^(j-1) between
\* attempt j and attempt j + 1, then rethrows the last error; a run in which
\* an attempt succeeds returns its value and that attempt is the last.
C13_RetryableBackoff ==
    \A c \in Callers :
        /\ (\A i \in 1..Len(cs[c].errors) : OnlyRetryable(cs[c].errors[i])) =>
              /\ Len(cs[c].errors) <= cs[c].maxRetries + 1
              /\ cs[c].delays =
                    [j \in 1..Len(cs[c].delays) |-> cs[c].baseDelay * Pow2(j - 1)]
              /\ \A j \in 1..(Len(cs[c].times) - 1) :
                    cs[c].times[j + 1] - cs[c].times[j] >= cs[c].delays[j]
              /\ Thrown(c) =>
                    /\ Len(cs[c].errors) = cs[c].maxRetries + 1
                    /\ Len(cs[c].delays) = cs[c].maxRetries
                    /\ cs[c].thrown = Some(cs[c].errors[Len(cs[c].errors)])
              /\ cs[c].pc = "backoff" => Len(cs[c].delays) = Len(cs[c].errors)
        /\ cs[c].pc = "returned" =>
              /\ cs[c].ret = Some("value")
              /\ Len(cs[c].times) = Len(cs[c].errors) + 1
              /\ cs[c].thrown = None

\* four attempts, delays baseDelay, 2 baseDelay, 4 baseDelay, then the throw
C13_Witness ==
    \E c \in Callers :
        /\ Thrown(c) /\ cs[c].maxRetries = MaxRetries
        /\ Len(cs[c].errors) = MaxRetries + 1
        /\ \A i \in 1..Len(cs[c].errors) : OnlyRetryable(cs[c].errors[i])
        /\ cs[c].delays = <<BaseDelay, 2 * BaseDelay, 4 * BaseDelay>>
        /\ cs[c].errors[1] # cs[c].errors[4]

C15_UpstreamLimitClamped ==
    \A c \in Callers :
        /\ cs[c].upCalls > 0 =>
              cs[c].perPage = Min(cs[c].limit, SAFE_MAX) /\ cs[c].perPage <= SAFE_MAX
        /\ Returned(c) => cs[c].ret.totalRequested = cs[c].limit
        /\ IsSome(cs[c].entry) => Get(cs[c].entry).totalRequested = cs[c].limit

\* a is a sub-list of b: a is b with some elements left out
RECURSIVE IsSubList(_, _)
IsSubList(a, b) ==
    IF a = <<>> THEN TRUE
    ELSE IF b = <<>> THEN FALSE
    ELSE IF Head(a) = Head(b) THEN IsSubList(Tail(a), Tail(b))
    ELSE IsSubList(a, Tail(b))

\* C20: for every call whose top-level search succeeded, and for every
\* cache hit, rateLimited + |successful| <= totalRequested and fromCache is
\* a sub-list of successful.
C20_ResultInvariants ==
    \A c \in Callers :
        Returned(c) /\ cs[c].topErr = None =>
            /\ cs[c].ret.rateLimited + Len(cs[c].ret.successful) <= cs[c].ret.totalRequested
            /\ IsSubList(cs[c].ret.fromCache, cs[c].ret.successful)

\* the object BrowserCache.set has built before it looks at the bounds:
\* the keys, and for each key its position, last-access timestamp
KeysOf(cache) == {cache[i].key : i \in 1..Len(cache)}
SetKeys == KeysOf(lastOp.before) \cup {lastOp.key}
SetTimestamp(k) ==
    IF k = lastOp.key THEN lastOp.at
    ELSE lastOp.before[IndexOf(lastOp.before, k)].timestamp
SetPosition(k) ==
    IF IndexOf(lastOp.before, k) # 0 THEN IndexOf(lastOp.before, k)
    ELSE Len(lastOp.before) + 1
SetIsOver ==
    \/ Cardinality(SetKeys) > MAX_ENTRIES
    \/ SerializedSize(Assign(lastOp.before, lastOp.key,
                             [data |-> Get(lastOp.ret), timestamp |-> 0, expiresAt |-> 0]))
          > MAX_CACHE_SIZE
Evicted == SetKeys \ KeysOf(localStore)

C17_GetOnlyUpdatesRecency ==
    lastOp.op = "get" /\ IsSome(lastOp.ret) =>
        /\ Len(localStore) = Len(lastOp.before)
        /\ \A i \in 1..Len(localStore) :
              /\ localStore[i].key = lastOp.before[i].key
              /\ localStore[i].data = lastOp.before[i].data
              /\ localStore[i].expiresAt = lastOp.before[i].expiresAt
              /\ localStore[i].key # lastOp.key =>
                    localStore[i].timestamp = lastOp.before[i].timestamp
              /\ localStore[i].key = lastOp.key =>
                    localStore[i].timestamp = lastOp.at

\* a get returned an entry, stored with another one, later than it was set
C17_Witness ==
    /\ lastOp.op = "get" /\ IsSome(lastOp.ret)
    /\ Len(lastOp.before) = 2
    /\ lastOp.before[IndexOf(lastOp.before, lastOp.key)].timestamp < lastOp.at
    /\ localStore # lastOp.before

(***************************************************************************)
(* C18.  BrowserCache never throws.  When the backing store is unavailable *)
(* or its read or write fails, get returns null, getStats returns zero     *)
(* counts, and set, delete, clear and invalidate leave no observable       *)
(* effect.                                                                 *)
(***************************************************************************)
StorageOps == {"get", "set", "delete", "clear", "invalidate", "getStats"}

StorageFailed == ~hasStorage \/ lastOp.fault # "none"

EmptyQuery(h) == QueryFacts(h.query).isString /\ QueryFacts(h.query).length = 0
LongQuery(h) == QueryFacts(h.query).isString /\ QueryFacts(h.query).length > 500
ProblematicQuery(h) == QueryFacts(h.query).isString /\ QueryFacts(h.query).problematic
LimitBelowOne(h) == h.limit.type = "number" /\ h.limit.value < 1
LimitAboveMax(h) == h.limit.type = "number" /\ h.limit.value > 25

InvalidRequest(h) ==
    EmptyQuery(h) \/ LongQuery(h) \/ ProblematicQuery(h) \/ LimitBelowOne(h) \/ LimitAboveMax(h)

\* the fields of the request that are at fault: a query that is absent or
\* blank offends as an empty one does, a limit that is no number as one out
\* of range does
OffendingFields(h) ==
    {f \in {"query"} :
        \/ EmptyQuery(h) \/ LongQuery(h) \/ ProblematicQuery(h)
        \/ ~QueryFacts(h.query).isString
        \/ QueryFacts(h.query).trimmed = 0}
    \cup
    {f \in {"limit"} :
        LimitBelowOne(h) \/ LimitAboveMax(h) \/ h.limit.type \notin {"undefined", "number"}}

C23_TopLevel5xxRetried ==
    \A c \in Callers :
        (Done(c) /\ provider = "openalex" /\ cs[c].topOutcome = "500") =>
            /\ isRetryableError(Get(cs[c].topErr))
            /\ cs[c].upCalls = MaxRetries + 1
            /\ cs[c].attempt = MaxRetries

(***************************************************************************)
(* C25.  When resolving one item fails with an error that is not           *)
(* rate-limit classified, the item is skipped: it is absent from           *)
(* successful and rateLimited is not incremented; the item's upstream      *)
(* fetch is attempted only once; the remaining items are still processed.  *)
(***************************************************************************)
OtherFailedItems(c) ==
    {i \in 1..Len(cs[c].log) : cs[c].log[i] \in {"fallback", "error"}}

C25_OtherItemFailureSkips ==
    \A c \in Callers :
        (FromApi(c) /\ cs[c].topErr = None /\ OtherFailedItems(c) # {}) =>
            /\ \A i \in OtherFailedItems(c) :
                  cs[c].papers[i].paperId \notin Range(PaperIdsOf(cs[c].ret.successful))
            /\ cs[c].ret.rateLimited = Cardinality(RateLimitedItems(c))
            /\ Len(cs[c].log) = Len(cs[c].papers)
            /\ Len(cs[c].papers) = 1 => cs[c].upCalls <= 2

(***************************************************************************)
(* C26.  After every BrowserCache.set() returns, starting from an empty    *)
(* store and for any sequence of set, get and delete calls, the store      *)
(* holds at most MAX_ENTRIES entries and its serialized size is at most    *)
(* MAX_CACHE_SIZE.                                                         *)
(***************************************************************************)
C26_StoreWithinBounds ==
    lastOp.op = "set" =>
        /\ Len(localStore) <= MAX_ENTRIES
        /\ SerializedSize(localStore) <= MAX_CACHE_SIZE

(***************************************************************************)
(* C30.  With a usable backing store, immediately after set(k, v) returns, *)
(* get(k) returns v: the eviction sweep of a set never removes the entry   *)
(* the set has just written, also when k already existed and when several  *)
(* entries carry the same timestamp.                                       *)
(***************************************************************************)
C30_SetThenGet ==
    (hasStorage /\ lastOp.op = "set") =>
        BrowserCache_get(localStore, hasStorage, lastOp.key, now).ret = lastOp.ret

(***************************************************************************)
(* C29.  If the top-level upstream search of a searchWithCaching call      *)
(* fails, whatever the failure class, the call writes no SearchCacheEntry  *)
(* to either tier and leaves both Paper caches unchanged: when the call    *)
(* has returned, both tiers are as they were when it started.  So the next *)
(* call for the same key again misses both tiers and attempts the upstream *)
(* search (a durable read that raises aborts that call before any miss).   *)
(***************************************************************************)
C29_FailedSearchWritesNothing ==
    lastOp.op = "call" =>
        /\ (cs[1].pc = "done" /\ cs[1].topErr # None) => Tiers = lastOp.before
        /\ (lastOp.prevFailed /\ cs[1].pc = "done" /\ cs[1].durOutcome # "throw") =>
              /\ cs[1].ephHeld = None
              /\ cs[1].durHeld = None
              /\ cs[1].reachedFetch
              /\ cs[1].upCalls >= 1

\* with Papers and another key's entry cached by an earlier call, a search
\* has failed on every attempt of its budget and the call has returned
C29_Witness ==
    /\ lastOp.op = "call"
    /\ lastOp.before.papers # {}
    /\ lastOp.before.search # {}
    /\ lastOp.before.store # <<>>
    /\ cs[1].pc = "done"
    /\ cs[1].topErr # None
    /\ cs[1].attempt = MaxRetries
    /\ Tiers = lastOp.before

\* the call after a failed one, for the same key, has searched upstream again
C29_NextCallSearches ==
    /\ lastOp.op = "call"
    /\ lastOp.prevFailed
    /\ cs[1].pc = "done"
    /\ cs[1].upCalls >= 1

(***************************************************************************)
(* C24.  Any two consecutive requests issued to the upstream client by     *)
(* orchestrations that share the limiter (the top-level search, the        *)
(* per-item get-by-id calls and the retry attempts of either) start at     *)
(* least minInterval apart.                                                *)
(***************************************************************************)
C24_RequestsSpaced ==
    \A c \in Callers :
        \A i \in 1..(Len(cs[c].issued) - 1) :
            cs[c].issued[i + 1] - cs[c].issued[i] >= minIntervalOf(provider)

\* C22: a specialized search never shares a cache key with an unfiltered
\* search: no key under which searchRecentPapers or searchOpenAccessPapers
\* has read or written an entry is a key that a searchWithCaching call,
\* which is a different logical search, has derived.
C22_NoSharedKey == lastOp.special \cap lastOp.plain = {}

\* the sharing is served: a searchWithCaching call returns, as a cache hit,
\* the entry that a specialized search wrote
C22_FilteredEntryServed ==
    /\ Returned(1) /\ cs[1].ret.source \in {"ephemeral", "durable"}
    /\ searchKey(cs[1].queryHash) \in lastOp.special
    /\ searchKey(cs[1].queryHash) \in lastOp.plain
    /\ cs[1].topOutcome = ""

\* the handler's part of C22: a step of a request with filters leaves both
\* cache tiers as they are
C22_FilteredHandlerBypasses ==
    [][lastOp'.op = "handler" /\ lastOp'.filters /\ lastOp' # lastOp
          => UNCHANGED <<localStore, searchTable, papersTable>>]_vars

\* the search rows and browser-cache entries held for a query hash
EphemeralEntries(h) ==
    {i \in 1..Len(localStore) : localStore[i].key = searchKey(h)}

WholeEntry(e) == e.successfulCount = Len(e.results) /\ e.expiresAt > e.updatedAt

\* callers 1 and 2 ran for the same key, both missed both tiers and both
\* have completed, each with the entry it built
BothMissedAndCompleted ==
    /\ Done(1) /\ Done(2)
    /\ cs[1].queryHash = cs[2].queryHash
    /\ \A c \in Callers :
          /\ cs[c].ephHeld = None /\ cs[c].durHeld = None
          /\ cs[c].wbOutcome # ""

BuiltEntries == {Get(cs[c].entry) : c \in Callers}

\* C27: when two searchWithCaching calls for the same key both miss both
\* tiers and both complete their orchestration, no tier holds more than one
\* entry for the key; a tier that took a write-back (the durable store when
\* a cacheSearchResult went through, the browser cache when localStorage is
\* there and a call reached setSearchResult) holds exactly one; and every
\* entry held is, as a whole, the entry built by one of the two calls, with
\* successfulCount = |results| and expiresAt later than updatedAt.
C27_OneWholeEntryPerTier ==
    BothMissedAndCompleted =>
        LET h == cs[1].queryHash
            rows == SearchRows(searchTable, h)
            held == EphemeralEntries(h)
        IN /\ Cardinality(rows) <= 1
           /\ (\E c \in Callers : cs[c].wbOutcome = "ok") => Cardinality(rows) = 1
           /\ \A r \in rows : r \in BuiltEntries /\ WholeEntry(r)
           /\ Cardinality(held) <= 1
           /\ (hasStorage /\ \E c \in Callers : cs[c].wbOutcome \in {"ok", "error"})
                 => Cardinality(held) = 1
           /\ \A i \in held :
                 localStore[i].data \in BuiltEntries /\ WholeEntry(localStore[i].data)

\* both calls fetched upstream and wrote back two different entries; each
\* tier holds one of them
C27_Witness ==
    /\ BothMissedAndCompleted
    /\ \A c \in Callers : cs[c].upCalls > 0 /\ cs[c].wbOutcome = "ok"
    /\ Get(cs[1].entry) # Get(cs[2].entry)
    /\ hasStorage
    /\ Cardinality(SearchRows(searchTable, cs[1].queryHash)) = 1
    /\ Cardinality(EphemeralEntries(cs[1].queryHash)) = 1

\* the phase of the state machine an activation is in: CHECK_EPHEMERAL runs
\* inside the call itself; 2 CHECK_DURABLE, 3 RATE_LIMIT_WAIT,
\* 4 UPSTREAM_FETCH (retrying), 5 PER_ITEM_RESOLVE (loop), 6 WRITE_BACK,
\* 7 DONE
Phase(s) ==
    CASE s.pc = "idle" -> 0
      [] s.pc \in {"get_cached_search", "delete_cached_search"} -> 2
      [] s.pc = "rate_limit_wait" /\ s.after = "search_works" -> 3
      [] s.pc = "search_works" -> 4
      [] s.pc = "backoff" /\ s.after = "search_works" -> 4
      [] s.pc = "cache_search_result" -> 6
      [] s.pc = "done" -> 7
      [] OTHER -> 5

\* the n-th call, once made, returns a CacheResult
C28_Returns ==
    \A n \in 1..MaxCalls : (calls = n) ~> (calls > n \/ Returned(1))

\* a step of a call never goes back to an earlier phase
C28_PhaseOrder ==
    [][calls' = calls => Phase(cs'[1]) >= Phase(cs[1])]_vars

\* in WRITE_BACK the browser cache is written only once the durable
\* write-back has completed
C28_DurableThenEphemeral ==
    [][(cs[1].pc = "cache_search_result" /\ localStore' # localStore)
          => cs'[1].wbOutcome \in {"ok", "error"}]_vars

\* the top-level search is attempted at most maxRetries + 1 times
C28_SearchAttemptsBounded ==
    [](cs[1].pc = "search_works" => cs[1].attempt + 1 <= MaxRetries + 1)

\* C28: provided every upstream, durable-tier and timer operation
\* eventually returns or fails, every searchWithCaching call eventually
\* returns, passing through its phases only in the order CHECK_EPHEMERAL,
\* CHECK_DURABLE, RATE_LIMIT_WAIT, UPSTREAM_FETCH, PER_ITEM_RESOLVE,
\* WRITE_BACK, with the durable write-back before the ephemeral one and the
\* top-level search attempted at most maxRetries + 1 = 4 times.
C28_CallReturnsInOrder ==
    /\ C28_Returns
    /\ C28_PhaseOrder
    /\ C28_DurableThenEphemeral
    /\ C28_SearchAttemptsBounded

\* what holds of the code: the order, the write-back and the attempt bound
C28_InOrder ==
    /\ C28_PhaseOrder
    /\ C28_DurableThenEphemeral
    /\ C28_SearchAttemptsBounded

\* the top-level search has been attempted four times
C28_FourthAttempt == cs[1].pc = "search_works" /\ cs[1].attempt = MaxRetries

\* C21: correctness does not depend on the ephemeral tier: under the same
\* script of calls, clock advances and upstream behaviour, every call of the
\* run without a browser cache settles with the same successful papers,
\* rateLimited and totalRequested as the same call of the run with one.
C21_SameResultsWithoutEphemeral ==
    (lastOp.run = "B" /\ calls >= 1 /\ Done(1)) =>
        Outcome(cs[1].ret) = lastOp.results[calls]

\* when no durable write-back takes time, the browser envelope and the
\* entry expire together, and the two runs return the same
C21_SameResultsWhenExpiriesCoincide ==
    (\A n \in 1..MaxCalls : ~lastOp.script[n].slowWrite) => C21_SameResultsWithoutEphemeral

====
